---- MODULE Spec2Model ----
(***************************************************************************)
(* Archetype-based entity/component storage of broyale: ColumnStore        *)
(* (src/ecs/columnStore.ts), Archetype (src/ecs/archetype.ts) and World    *)
(* (src/unnamed/part_004, world.ts).                                       *)
(*                                                                         *)
(* JavaScript values are records [t, n, s]: t is the result of typeof,     *)
(* n the numeric payload and s the characters of a string.  A number x is  *)
(* held in half units (n = 2x), so that 3.5 is n = 7; a bigint is held     *)
(* as the integer itself; a boolean as 0 or 1.  Objects (component         *)
(* instances) are records from field name to JavaScript value.             *)
(***************************************************************************)
EXTENDS Integers, Sequences, FiniteSets, TLC

VARIABLES
    nextEntityId,          \* World.nextEntityId
    entityArchetype,       \* World.entityArchetype : Entity -> Archetype (reference)
    archetypeBySignature,  \* World.archetypeBySignature : signature -> Archetype (reference)
    heap,                  \* the Archetype objects the World has constructed, by reference
    last,                  \* the operation that produced this state
    written,               \* reference map Entity -> (typeId -> value handed in by the caller)
    destroyed,             \* entities destroyed and not added again since
    readded,               \* entities added (again) while they were already a row
    roundTrip,             \* addComponent/removeComponent round trip in progress
    ops,                   \* number of operations performed (createEntity apart)
    arch,                  \* the Archetype under test (Archetype specifications)
    ctorsIn,               \* the constructor list the Archetype under test was built from
    returned,              \* the ids createEntity has returned, in call order
    addOrder,              \* the entities handed to addEntity of the Archetype under test, in
                           \* call order, until an entity is removed from it
    colStore               \* the ColumnStore under test (ColumnStore specification)

vars == <<nextEntityId, entityArchetype, archetypeBySignature, heap, last,
          written, destroyed, readded, roundTrip, ops, arch, ctorsIn, returned, addOrder, colStore>>

(***************************************************************************)
(* Bounds                                                                  *)
(***************************************************************************)
MaxEntities == 2
MaxOps == 4
MaxArchEntities == 3
MaxArchOps == 5
MaxCtorList == 3
MaxQueryLen == 2
MaxReadOps == 3
MaxStoreOps == 3
MaxKindOps == 1
MaxIndex == 3

(***************************************************************************)
(* JavaScript values                                                       *)
(***************************************************************************)
Num(x) == [t |-> "number", n |-> 2 * x, s |-> <<>>]
Half(h) == [t |-> "number", n |-> h, s |-> <<>>]
NaN == [t |-> "number", n |-> 0, s |-> <<"NaN">>]
Big(x) == [t |-> "bigint", n |-> x, s |-> <<>>]
Bool(b) == [t |-> "boolean", n |-> IF b THEN 1 ELSE 0, s |-> <<>>]
Str(chars) == [t |-> "string", n |-> 0, s |-> chars]
Undefined == [t |-> "undefined", n |-> 0, s |-> <<>>]
ObjectValue == [t |-> "object", n |-> 0, s |-> <<>>]

IsNaN(v) == v.t = "number" /\ v.s = <<"NaN">>

Abs(i) == IF i < 0 THEN -i ELSE i

Pow2(k) == 2 ^ k

\* value[key] of a JavaScript object: undefined when the property is absent
Prop(value, key) == IF key \in DOMAIN value THEN value[key] ELSE Undefined

(***************************************************************************)
(* Typed arrays (the TypedArray union of src/ecs/types.ts)                 *)
(***************************************************************************)
FieldTypes ==
    {"f16", "f32", "f64", "i8", "i16", "i32", "u8", "u16", "u32", "u8c",
     "bi64", "biu64", "bool"}

BigIntTypes == {"bi64", "biu64"}

FloatBits(type) == CASE type = "f16" -> 11 [] type = "f32" -> 24 [] OTHER -> 53

IntBits(type) ==
    CASE type \in {"i8", "u8", "bool"} -> 8
      [] type \in {"i16", "u16"} -> 16
      [] OTHER -> 32

RECURSIVE ShiftFor(_, _)
\* the number of low bits a magnitude m loses when kept in `bits` significant
\* bits; the 53 bits of f64 keep every magnitude of the model (below 2^31)
ShiftFor(m, bits) ==
    IF bits > 30 \/ m < Pow2(bits) THEN 0 ELSE 1 + ShiftFor(m \div 2, bits)

\* a magnitude of q units and a remainder r rounded to whole units, ties to even
RoundHalfEven(q, r, unit) ==
    IF unit > 1 /\ (2 * r > unit \/ (2 * r = unit /\ q % 2 = 1))
    THEN (q + 1) * unit
    ELSE q * unit

\* round-to-nearest, ties-to-even, to `bits` significant bits (IEEE 754
\* narrowing); unit is the weight of the lowest bit that is kept
RoundMagnitude(m, unit) == RoundHalfEven(m \div unit, m % unit, unit)

RoundSig(h, bits) ==
    (IF h < 0 THEN -1 ELSE 1) * RoundMagnitude(Abs(h), Pow2(ShiftFor(Abs(h), bits)))

\* truncation toward zero of the number held as h half units
Trunc(h) == IF h < 0 THEN -((-h) \div 2) ELSE h \div 2

\* two's-complement wrap of an integer into `bits` bits, bits <= 16
WrapInt(i, bits, signed) ==
    LET m == i % Pow2(bits)
    IN IF signed /\ m >= Pow2(bits - 1) THEN m - Pow2(bits) ELSE m

\* Uint8ClampedArray conversion: clamp to 0..255, round half to even
ClampU8(h) ==
    IF h <= 0 THEN 0
    ELSE IF h >= 510 THEN 255
    ELSE IF h % 2 = 0 THEN h \div 2
    ELSE IF (h \div 2) % 2 = 0 THEN h \div 2 ELSE (h \div 2) + 1

\* Values of 32 and 64 bit width: every integer of the model lies inside the
\* signed range, so the signed wrap leaves it alone; the unsigned wrap of a
\* negative i is i + 2^bits, held as the payload i with the marker "+2^32" or
\* "+2^64" in s (such a value differs from every value without the marker).
WrapWide(v, signed, marker) ==
    IF signed THEN [v EXCEPT !.s = <<>>]
    ELSE IF v.n < 0 THEN [v EXCEPT !.s = <<marker>>]
    ELSE v

\* the element stored by `arr[index] = v` in a typed array of the given field
\* type; err is "TypeError" when the engine cannot convert v (a bigint into a
\* number array, a number into a BigInt array)
WriteElem(type, v) ==
    IF type \in BigIntTypes
    THEN IF v.t # "bigint" THEN [err |-> "TypeError", val |-> Big(0)]
         ELSE [err |-> "", val |-> WrapWide(v, type = "bi64", "+2^64")]
    ELSE IF v.t # "number" THEN [err |-> "TypeError", val |-> Num(0)]
    ELSE IF type \in {"f16", "f32", "f64"}
         THEN [err |-> "", val |-> IF IsNaN(v) THEN NaN ELSE Half(RoundSig(v.n, FloatBits(type)))]
    ELSE IF IsNaN(v) THEN [err |-> "", val |-> Num(0)]
    ELSE IF type = "u8c" THEN [err |-> "", val |-> Num(ClampU8(v.n))]
    ELSE IF type \in {"i32", "u32"}
         THEN [err |-> "", val |-> WrapWide([v EXCEPT !.n = 2 * Trunc(v.n)], type = "i32", "+2^32")]
    ELSE [err |-> "", val |-> Num(WrapInt(Trunc(v.n), IntBits(type), type \in {"i8", "i16"}))]

ZeroOf(type) == IF type \in BigIntTypes THEN Big(0) ELSE Num(0)

Zeros(type, length) == [i \in 1..length |-> ZeroOf(type)]

\* ColumnStore.createArrayForType: a zero-filled array, or the error for a
\* field type outside the recognised set
createArrayForType(type, length) ==
    IF type \in FieldTypes
    THEN [err |-> "", arr |-> Zeros(type, length)]
    ELSE [err |-> "UnsupportedFieldTypeError", arr |-> <<>>]

(***************************************************************************)
(* ColumnStore (src/ecs/columnStore.ts).  A store is the record            *)
(* [schema, capacity, size, typedArrayMap]; schema is the sequence of      *)
(* [key, type] in Object.keys order; typedArrayMap[key][i + 1] is element  *)
(* i of the field's typed array.  An operation that can throw returns      *)
(* [err, store]: err = "" on success, otherwise the error thrown and the   *)
(* store as the throw leaves it.                                           *)
(***************************************************************************)
INITIAL_CAPACITY == 8

SchemaKeys(schema) == {schema[i].key : i \in 1..Len(schema)}

\* the declared type of a field of the schema
SchemaType(schema, key) ==
    schema[CHOOSE i \in 1..Len(schema) : schema[i].key = key].type

Max(a, b) == IF a >= b THEN a ELSE b

\* constructor that gives a field of an unknown type a number array
NewColumnStore_anyType(schema, initialCapacity) ==
    [err |-> "",
     store |-> [schema |-> schema, capacity |-> Max(initialCapacity, 1), size |-> 0,
                typedArrayMap |->
                    [k \in SchemaKeys(schema) |-> Zeros("f64", Max(initialCapacity, 1))]]]

\* ColumnStore.constructor
NewColumnStore(schema, initialCapacity) ==
    LET cap == Max(initialCapacity, 1)
        bad == {i \in 1..Len(schema) : schema[i].type \notin FieldTypes}
    IN IF bad # {}
       THEN [err |-> "UnsupportedFieldTypeError",
             store |-> [schema |-> schema, capacity |-> cap, size |-> 0,
                        typedArrayMap |-> <<>>]]
       ELSE [err |-> "",
             store |-> [schema |-> schema, capacity |-> cap, size |-> 0,
                        typedArrayMap |->
                            [k \in SchemaKeys(schema) |->
                                createArrayForType(SchemaType(schema, k), cap).arr]]]

RECURSIVE GrownCapacity(_, _)
\* growth to exactly the capacity asked for
GrownCapacity_exact(newCap, minCapacity) == minCapacity

\* the while loop of ensureCapacity: double until minCapacity is reached
GrownCapacity(newCap, minCapacity) ==
    IF newCap < minCapacity THEN GrownCapacity(newCap * 2, minCapacity) ELSE newCap

\* ensureCapacity that allocates the larger arrays without copying the old ones
ensureCapacity_noCopy(store, minCapacity) ==
    IF store.capacity >= minCapacity THEN store
    ELSE [store EXCEPT
             !.typedArrayMap =
                 [k \in DOMAIN store.typedArrayMap |->
                     Zeros(SchemaType(store.schema, k),
                           GrownCapacity(store.capacity, minCapacity))],
             !.capacity = GrownCapacity(store.capacity, minCapacity)]

\* ColumnStore.ensureCapacity; the old and the new array of a field are of the
\* same kind (both come from the schema), so the mismatch branch is never taken
ensureCapacity(store, minCapacity) ==
    IF store.capacity >= minCapacity THEN store
    ELSE LET newCap == GrownCapacity(store.capacity, minCapacity)
         IN [store EXCEPT
                !.typedArrayMap =
                    [k \in DOMAIN store.typedArrayMap |->
                        [i \in 1..newCap |->
                            IF i <= store.capacity
                            THEN store.typedArrayMap[k][i]
                            ELSE ZeroOf(SchemaType(store.schema, k))]],
                !.capacity = newCap]

(***************************************************************************)
(* parseInt(raw, 10) and Number.parseFloat(raw) on a string given as its   *)
(* sequence of characters.  The result is in half units; a decimal         *)
(* fraction that is no multiple of 0.5 is cut to the half below.           *)
(***************************************************************************)
Digits == <<"0", "1", "2", "3", "4", "5", "6", "7", "8", "9">>

IsDigit(c) == \E d \in 1..10 : Digits[d] = c

DigitVal(c) == (CHOOSE d \in 1..10 : Digits[d] = c) - 1

CharAt(raw, i) == IF i \in 1..Len(raw) THEN raw[i] ELSE ""

RECURSIVE SkipSpace(_, _)
SkipSpace(raw, i) == IF CharAt(raw, i) = " " THEN SkipSpace(raw, i + 1) ELSE i

RECURSIVE DigitsEnd(_, _)
\* the first position at or after i that holds no digit
DigitsEnd(raw, i) == IF IsDigit(CharAt(raw, i)) THEN DigitsEnd(raw, i + 1) ELSE i

RECURSIVE DigitsValue(_, _, _, _)
\* the decimal value of raw[i..j-1] appended to acc
DigitsValue(raw, i, j, acc) ==
    IF i >= j THEN acc ELSE DigitsValue(raw, i + 1, j, 10 * acc + DigitVal(raw[i]))

Pow10(k) == 10 ^ k

includes(raw, c) == \E i \in 1..Len(raw) : raw[i] = c

\* the position behind an optional sign at i0
SignEnd(raw, i0) == IF CharAt(raw, i0) \in {"+", "-"} THEN i0 + 1 ELSE i0

Sign(raw, i0) == IF CharAt(raw, i0) = "-" THEN -1 ELSE 1

\* parseInt once the digits raw[i1..j-1] are located
ParseIntDigits(raw, sign, i1, j) ==
    IF j = i1 THEN NaN ELSE Num(sign * DigitsValue(raw, i1, j, 0))

ParseIntAt(raw, i0) ==
    ParseIntDigits(raw, Sign(raw, i0), SignEnd(raw, i0), DigitsEnd(raw, SignEnd(raw, i0)))

parseInt(raw) == ParseIntAt(raw, SkipSpace(raw, 1))

\* the exponent part located at raw[x1..x2-1]; without digits there is none
ExponentDigits(raw, sign, x1, x2) ==
    IF x2 > x1 THEN sign * DigitsValue(raw, x1, x2, 0) ELSE 0

\* the decimal exponent written at position k, 0 when there is none
Exponent(raw, k) ==
    IF CharAt(raw, k) \in {"e", "E"}
    THEN ExponentDigits(raw, Sign(raw, k + 1), SignEnd(raw, k + 1),
                        DigitsEnd(raw, SignEnd(raw, k + 1)))
    ELSE 0

\* mant * 10^scale in half units
Scaled(mant, scale) ==
    IF scale >= 0 THEN 2 * mant * Pow10(scale) ELSE (2 * mant) \div Pow10(-scale)

\* parseFloat once the integer digits raw[i1..j-1] and the end k of the
\* fraction are located (k = j when there is no decimal point)
ParseFloatDigits(raw, sign, i1, j, k, fracLen) ==
    IF (j - i1) + fracLen = 0 THEN NaN
    ELSE Half(sign * Scaled(DigitsValue(raw, j + 1, k, DigitsValue(raw, i1, j, 0)),
                            Exponent(raw, k) - fracLen))

ParseFloatFraction(raw, sign, i1, j) ==
    IF CharAt(raw, j) = "."
    THEN ParseFloatDigits(raw, sign, i1, j, DigitsEnd(raw, j + 1), DigitsEnd(raw, j + 1) - (j + 1))
    ELSE ParseFloatDigits(raw, sign, i1, j, j, 0)

ParseFloatAt(raw, i0) ==
    ParseFloatFraction(raw, Sign(raw, i0), SignEnd(raw, i0), DigitsEnd(raw, SignEnd(raw, i0)))

parseFloat(raw) == ParseFloatAt(raw, SkipSpace(raw, 1))

(***************************************************************************)
(* ColumnStore.set, get, swapRemove, copyFrom                              *)
(***************************************************************************)
\* the typeof switch with every string handed to parseInt
SetOperand_parseIntOnly(raw) ==
    CASE raw.t = "bigint" -> [err |-> "", val |-> raw]
      [] raw.t = "string" -> [err |-> "", val |-> parseInt(raw.s)]
      [] raw.t = "number" -> [err |-> "", val |-> raw]
      [] raw.t = "boolean" -> [err |-> "", val |-> IF raw.n # 0 THEN Num(1) ELSE Num(0)]
      [] raw.t = "undefined" -> [err |-> "", val |-> Num(0)]
      [] OTHER -> [err |-> "UnsupportedFieldTypeError", val |-> Num(0)]

\* the number or bigint that the typeof switch of `set` hands to the typed
\* array for a field value raw; unsupported for object, function and symbol
SetOperand(raw) ==
    CASE raw.t = "bigint" -> [err |-> "", val |-> raw]
      [] raw.t = "string" ->
            [err |-> "",
             val |-> IF includes(raw.s, ".") \/ includes(raw.s, "e") \/ includes(raw.s, "E")
                     THEN parseFloat(raw.s) ELSE parseInt(raw.s)]
      [] raw.t = "number" -> [err |-> "", val |-> raw]
      [] raw.t = "boolean" -> [err |-> "", val |-> IF raw.n # 0 THEN Num(1) ELSE Num(0)]
      [] raw.t = "undefined" -> [err |-> "", val |-> Num(0)]
      [] OTHER -> [err |-> "UnsupportedFieldTypeError", val |-> Num(0)]

\* what the typed array of a field of the given type stores for the field
\* value raw, or the error of the typeof switch or of the element store
Converted(type, operand) ==
    IF operand.err # "" THEN operand ELSE WriteElem(type, operand.val)

RECURSIVE SetFields(_, _, _, _)
\* the assignment of one field in the loop of `set`: a throw leaves the
\* earlier fields written
SetField(store, index, value, i, elem) ==
    IF elem.err # "" THEN [err |-> elem.err, store |-> store]
    ELSE SetFields([store EXCEPT !.typedArrayMap[store.schema[i].key][index + 1] = elem.val],
                   index, value, i + 1)

\* the for loop of `set` from the i-th schema key on
SetFields(store, index, value, i) ==
    IF i > Len(store.schema) THEN [err |-> "", store |-> store]
    ELSE SetField(store, index, value, i,
                  Converted(store.schema[i].type,
                            SetOperand(Prop(value, store.schema[i].key))))

\* a size update that counts the call instead of taking index + 1
Touch_countsCalls(res, index) ==
    IF res.err # "" THEN res
    ELSE [err |-> "",
          store |-> IF index >= res.store.size
                    THEN [res.store EXCEPT !.size = res.store.size + 1]
                    ELSE res.store]

\* the size update that ends `set` and `copyFrom`
Touch(res, index) ==
    IF res.err # "" THEN res
    ELSE [err |-> "",
          store |-> IF index >= res.store.size
                    THEN [res.store EXCEPT !.size = index + 1]
                    ELSE res.store]

\* ColumnStore.set
set(store, index, value) ==
    IF index < 0 THEN [err |-> "RangeError", store |-> store]
    ELSE Touch(SetFields(IF index >= store.capacity
                         THEN ensureCapacity(store, index + 1) ELSE store,
                         index, value, 1),
               index)

\* get that reads the slot whenever the typed array has one
GetField_readsSlot(store, key, index) ==
    LET ft == SchemaType(store.schema, key)
        raw == IF index < 0 THEN Undefined
               ELSE IF index < store.capacity THEN store.typedArrayMap[key][index + 1]
               ELSE Num(0)
    IN CASE ft = "bool" -> Bool(raw # Num(0))
         [] ft \in BigIntTypes ->
                IF raw.t = "number" THEN Big(raw.n \div 2) ELSE raw
         [] OTHER -> raw

\* one field of ColumnStore.get: the decoded element, or the literal 0 past
\* size; a typed array read at a negative index yields undefined
GetField(store, key, index) ==
    LET ft == SchemaType(store.schema, key)
        raw == IF index < 0 THEN Undefined
               ELSE IF index < store.size THEN store.typedArrayMap[key][index + 1]
               ELSE Num(0)
    IN CASE ft = "bool" -> Bool(raw # Num(0))
         [] ft \in BigIntTypes ->
                IF raw.t = "number" THEN Big(raw.n \div 2) ELSE raw
         [] OTHER -> raw

\* ColumnStore.get throws a TypeError: BigInt(undefined), for a 64-bit field
\* read at a negative index
GetThrows(store, index) ==
    index < 0 /\ \E k \in SchemaKeys(store.schema) : SchemaType(store.schema, k) \in BigIntTypes

\* ColumnStore.get: the record rebuilt from every field
get(store, index) == [k \in SchemaKeys(store.schema) |-> GetField(store, k, index)]

RECURSIVE CopyLast(_, _, _, _)
\* the for loop of swapRemove: arr[index] = arr[last] for every field
CopyLast(store, index, lastRow, i) ==
    IF i > Len(store.schema) THEN store
    ELSE LET key == store.schema[i].key
         IN CopyLast([store EXCEPT !.typedArrayMap[key][index + 1] =
                                      store.typedArrayMap[key][lastRow + 1]],
                     index, lastRow, i + 1)

\* swapRemove that shrinks without moving the last row into the hole
swapRemove_noCopy(store, index) ==
    IF index < 0 \/ index >= store.size THEN [err |-> "Error", store |-> store]
    ELSE [err |-> "", store |-> [store EXCEPT !.size = store.size - 1]]

\* swapRemove that takes an index at or beyond the size for the last row
swapRemove_clampsIndex(store, index) ==
    IF index < 0 \/ store.size = 0 THEN [err |-> "Error", store |-> store]
    ELSE IF index >= store.size - 1
    THEN [err |-> "", store |-> [store EXCEPT !.size = store.size - 1]]
    ELSE [err |-> "",
          store |-> [CopyLast(store, index, store.size - 1, 1) EXCEPT !.size = store.size - 1]]

\* swapRemove that fills the hole from the row before the last
swapRemove_copiesBeforeLast(store, index) ==
    IF index < 0 \/ index >= store.size THEN [err |-> "Error", store |-> store]
    ELSE IF index = store.size - 1
    THEN [err |-> "", store |-> [store EXCEPT !.size = store.size - 1]]
    ELSE [err |-> "",
          store |-> [CopyLast(store, index, store.size - 2, 1) EXCEPT !.size = store.size - 1]]

\* ColumnStore.swapRemove
swapRemove(store, index) ==
    LET lastRow == store.size - 1
    IN IF index < 0 \/ index >= store.size THEN [err |-> "Error", store |-> store]
       ELSE IF index = lastRow THEN [err |-> "", store |-> [store EXCEPT !.size = store.size - 1]]
       ELSE [err |-> "",
             store |-> [CopyLast(store, index, lastRow, 1) EXCEPT !.size = store.size - 1]]

RECURSIVE CopyFields(_, _, _, _, _)
\* the assignment of one field in the loop of copyFrom; a typed array ignores
\* the assignment to a negative index once the value is converted
CopyField(store, indexTarget, other, indexSrc, i, elem) ==
    IF elem.err # "" THEN [err |-> elem.err, store |-> store]
    ELSE CopyFields(IF indexTarget < 0 THEN store
                    ELSE [store EXCEPT
                             !.typedArrayMap[store.schema[i].key][indexTarget + 1] = elem.val],
                    indexTarget, other, indexSrc, i + 1)

\* the for loop of copyFrom from the i-th schema key on
CopyFields(store, indexTarget, other, indexSrc, i) ==
    IF i > Len(store.schema) THEN [err |-> "", store |-> store]
    ELSE IF store.schema[i].key \notin DOMAIN other.typedArrayMap
    THEN [err |-> "Error", store |-> store]
    ELSE CopyField(store, indexTarget, other, indexSrc, i,
                   WriteElem(store.schema[i].type,
                             other.typedArrayMap[store.schema[i].key][indexSrc + 1]))

\* copyFrom that leaves the size alone
CopyInto_noTouch(grown, indexTarget, other, indexSrc) ==
    IF indexSrc < 0 \/ indexSrc >= other.size
    THEN [err |-> "RangeError", store |-> grown]
    ELSE CopyFields(grown, indexTarget, other, indexSrc, 1)

\* copyFrom once the capacity of the target is ensured
CopyInto(grown, indexTarget, other, indexSrc) ==
    IF indexSrc < 0 \/ indexSrc >= other.size
    THEN [err |-> "RangeError", store |-> grown]
    ELSE Touch(CopyFields(grown, indexTarget, other, indexSrc, 1), indexTarget)

\* ColumnStore.copyFrom: the capacity is ensured before the source index is
\* checked; the target index is not checked
copyFrom(store, indexTarget, other, indexSrc) ==
    CopyInto(IF indexTarget >= store.capacity
             THEN ensureCapacity(store, indexTarget + 1) ELSE store,
             indexTarget, other, indexSrc)

(***************************************************************************)
(* Component constructors: the test components of archetype.test.ts and    *)
(* world.test.ts.  A constructor is named by its class; TypeId, Schema and *)
(* Default give its static typeId, its static schema and `new c()`.        *)
(***************************************************************************)
Ctors == {"Position", "Health", "Tag", "Identifier"}

TypeId(c) == c

Schema(c) ==
    CASE c = "Position" -> <<[key |-> "x", type |-> "f32"], [key |-> "y", type |-> "f32"]>>
      [] c = "Velocity" -> <<[key |-> "vx", type |-> "f32"], [key |-> "vy", type |-> "f32"]>>
      [] c = "Health" -> <<[key |-> "hp", type |-> "f32"]>>
      [] c = "Tag" -> <<[key |-> "flag", type |-> "bool"]>>
      [] c = "Identifier" -> <<[key |-> "id", type |-> "bi64"]>>

Default(c) ==
    CASE c = "Position" -> [x |-> Num(0), y |-> Num(0)]
      [] c = "Velocity" -> [vx |-> Num(0), vy |-> Num(0)]
      [] c = "Health" -> [hp |-> Num(100)]
      [] c = "Tag" -> [flag |-> Bool(FALSE)]
      [] c = "Identifier" -> [id |-> Big(0)]

\* the order of the typeIds under String.prototype.localeCompare
TypeIdOrder == <<"Health", "Identifier", "Position", "Tag", "Velocity">>

TypeIdRank(typeId) == CHOOSE i \in 1..Len(TypeIdOrder) : TypeIdOrder[i] = typeId

\* a.typeId.localeCompare(b.typeId): negative, zero or positive
localeCompare(a, b) == TypeIdRank(a) - TypeIdRank(b)

RECURSIVE InsertSorted(_, _)
\* c placed behind every element that does not compare greater (stable)
InsertSorted(sorted, c) ==
    IF sorted = <<>> THEN <<c>>
    ELSE IF localeCompare(TypeId(Head(sorted)), TypeId(c)) <= 0
         THEN <<Head(sorted)>> \o InsertSorted(Tail(sorted), c)
         ELSE <<c>> \o sorted

RECURSIVE SortByTypeId(_)
\* ctors.slice().sort((a, b) => a.typeId.localeCompare(b.typeId)); the sort is stable
SortByTypeId(ctors) ==
    IF ctors = <<>> THEN <<>>
    ELSE InsertSorted(SortByTypeId(SubSeq(ctors, 1, Len(ctors) - 1)), ctors[Len(ctors)])

RECURSIVE Join(_)
\* typeIds.join("|")
Join(typeIds) ==
    IF typeIds = <<>> THEN ""
    ELSE IF Len(typeIds) = 1 THEN typeIds[1]
    ELSE typeIds[1] \o "|" \o Join(Tail(typeIds))

Range(seq) == {seq[i] : i \in 1..Len(seq)}

(***************************************************************************)
(* Archetype (src/ecs/archetype.ts).  An archetype is the record           *)
(* [typeIds, ctors, entityIds, indexByEntity, stores]; row i of the code   *)
(* is entityIds[i + 1]; indexByEntity and stores are functions whose       *)
(* domain is the key set of the Map.                                       *)
(***************************************************************************)
DEFAULT_CAPACITY == 8

\* Archetype.constructor once the list is sorted: the stores Map is keyed by
\* typeId, so a typeId that occurs again replaces the store set before
ArchetypeOf(sorted) ==
    [typeIds |-> [i \in 1..Len(sorted) |-> TypeId(sorted[i])],
     ctors |-> sorted,
     entityIds |-> <<>>,
     indexByEntity |-> <<>>,
     stores |-> [t \in {TypeId(sorted[i]) : i \in 1..Len(sorted)} |->
                   NewColumnStore(
                       Schema(sorted[CHOOSE i \in 1..Len(sorted) :
                                  /\ TypeId(sorted[i]) = t
                                  /\ \A j \in 1..Len(sorted) :
                                        TypeId(sorted[j]) = t => j <= i]),
                       DEFAULT_CAPACITY).store]]

\* constructor that keeps the caller's order
NewArchetype_unsorted(ctors) == ArchetypeOf(ctors)

\* constructor that drops the repetitions of a typeId before sorting
NewArchetype_dedup(ctors) ==
    LET distinct == SelectSeq([i \in 1..Len(ctors) |-> [i |-> i, c |-> ctors[i]]],
                              LAMBDA p : \A j \in 1..(p.i - 1) : TypeId(ctors[j]) # TypeId(p.c))
    IN ArchetypeOf(SortByTypeId([i \in 1..Len(distinct) |-> distinct[i].c]))

\* Archetype.constructor
NewArchetype(ctors) == ArchetypeOf(SortByTypeId(ctors))

\* Archetype.copyConstructorList
copyConstructorList(a) == a.ctors

\* Archetype.signature
signature(a) == Join(a.typeIds)

\* Archetype.containsTypeId
containsTypeId(a, typeId) == typeId \in Range(a.typeIds)

\* Archetype.indexOf: [defined |-> FALSE] stands for undefined
indexOf(a, entity) ==
    IF entity \in DOMAIN a.indexByEntity
    THEN [defined |-> TRUE, index |-> a.indexByEntity[entity]]
    ELSE [defined |-> FALSE, index |-> 0]

\* Archetype.size
size(a) == Len(a.entityIds)

\* componentValues.get(typeId) of a Map<string, unknown>
MapGet(componentValues, typeId) ==
    IF typeId \in DOMAIN componentValues THEN componentValues[typeId] ELSE Undefined

\* map.get(key), or the given default when the key is absent
MapGetOr(map, key, default) == IF key \in DOMAIN map THEN map[key] ELSE default

\* Map.set(key, value)
MapSet(map, key, value) ==
    [k \in DOMAIN map \cup {key} |-> IF k = key THEN value ELSE map[k]]

\* Map.delete(key)
MapDelete(map, key) == [k \in DOMAIN map \ {key} |-> map[k]]

RECURSIVE SetComponents(_, _, _, _)
\* one store.set of the loop of addEntity, res being what it returned
SetComponent(a, index, componentValues, i, res) ==
    IF res.err # ""
    THEN [err |-> res.err, arch |-> [a EXCEPT !.stores[TypeId(a.ctors[i])] = res.store]]
    ELSE SetComponents([a EXCEPT !.stores[TypeId(a.ctors[i])] = res.store],
                       index, componentValues, i + 1)

\* the loop of addEntity without the default instance for an omitted type
SetComponents_skipOmitted(a, index, componentValues, i) ==
    IF i > Len(a.ctors) THEN [err |-> "", arch |-> a]
    ELSE IF MapGet(componentValues, TypeId(a.ctors[i])) = Undefined
    THEN SetComponents(a, index, componentValues, i + 1)
    ELSE SetComponent(a, index, componentValues, i,
                      set(a.stores[TypeId(a.ctors[i])], index,
                          MapGet(componentValues, TypeId(a.ctors[i]))))

\* the for loop of addEntity from the i-th constructor on
SetComponents(a, index, componentValues, i) ==
    IF i > Len(a.ctors) THEN [err |-> "", arch |-> a]
    ELSE SetComponent(a, index, componentValues, i,
                      set(a.stores[TypeId(a.ctors[i])], index,
                          IF MapGet(componentValues, TypeId(a.ctors[i])) = Undefined
                          THEN Default(a.ctors[i])
                          ELSE MapGet(componentValues, TypeId(a.ctors[i]))))

\* Archetype.addEntity
addEntity(a, entity, componentValues) ==
    LET index == Len(a.entityIds)
    IN SetComponents([a EXCEPT !.entityIds = Append(a.entityIds, entity),
                               !.indexByEntity = MapSet(a.indexByEntity, entity, index)],
                     index, componentValues, 1)

\* the keys of the stores Map in insertion order: the sorted typeIds, each once
StoreKeys(a) ==
    SelectSeq([i \in 1..Len(a.typeIds) |-> [i |-> i, t |-> a.typeIds[i]]],
              LAMBDA p : \A j \in 1..(p.i - 1) : a.typeIds[j] # p.t)

RECURSIVE SwapRemoveStores(_, _, _, _)
\* one store.swapRemove of the loop of removeEntity, res being what it returned
SwapRemoveStore(a, keys, index, i, res) ==
    IF res.err # "" THEN [err |-> res.err, arch |-> a]
    ELSE SwapRemoveStores([a EXCEPT !.stores[keys[i].t] = res.store], keys, index, i + 1)

\* a loop that stops after the first store
SwapRemoveStores_firstOnly(a, keys, index, i) ==
    IF i > 1 \/ i > Len(keys) THEN [err |-> "", arch |-> a]
    ELSE SwapRemoveStore(a, keys, index, i, swapRemove(a.stores[keys[i].t], index))

\* the for loop over the stores of removeEntity from the i-th store on
SwapRemoveStores(a, keys, index, i) ==
    IF i > Len(keys) THEN [err |-> "", arch |-> a]
    ELSE SwapRemoveStore(a, keys, index, i, swapRemove(a.stores[keys[i].t], index))

\* removeEntity that leaves the removed entity's entry in the index
removeEntity_keepIndex(a, entity) ==
    IF entity \notin DOMAIN a.indexByEntity THEN [err |-> "", arch |-> a]
    ELSE LET idx == a.indexByEntity[entity]
             lastRow == Len(a.entityIds) - 1
             lastEntity == a.entityIds[lastRow + 1]
             popped == SubSeq([a.entityIds EXCEPT ![idx + 1] = lastEntity], 1, lastRow)
         IN IF idx # lastRow
            THEN SwapRemoveStores(
                     [a EXCEPT !.entityIds = popped,
                               !.indexByEntity = MapSet(a.indexByEntity, lastEntity, idx)],
                     StoreKeys(a), idx, 1)
            ELSE SwapRemoveStores([a EXCEPT !.entityIds = popped], StoreKeys(a), lastRow, 1)

\* removeEntity that does not re-point the entity that was last
removeEntity_noRepoint(a, entity) ==
    IF entity \notin DOMAIN a.indexByEntity THEN [err |-> "", arch |-> a]
    ELSE LET idx == a.indexByEntity[entity]
             lastRow == Len(a.entityIds) - 1
             lastEntity == a.entityIds[lastRow + 1]
             popped == SubSeq([a.entityIds EXCEPT ![idx + 1] = lastEntity], 1, lastRow)
             deleted == MapDelete(a.indexByEntity, entity)
         IN SwapRemoveStores([a EXCEPT !.entityIds = popped, !.indexByEntity = deleted],
                             StoreKeys(a), idx, 1)

\* removeEntity that points the moved entity at the row before the last
removeEntity_repointsBeforeLast(a, entity) ==
    IF entity \notin DOMAIN a.indexByEntity THEN [err |-> "", arch |-> a]
    ELSE LET idx == a.indexByEntity[entity]
             lastRow == Len(a.entityIds) - 1
             lastEntity == a.entityIds[lastRow + 1]
             popped == SubSeq([a.entityIds EXCEPT ![idx + 1] = lastEntity], 1, lastRow)
             deleted == MapDelete(a.indexByEntity, entity)
         IN IF idx # lastRow
            THEN SwapRemoveStores(
                     [a EXCEPT !.entityIds = popped,
                               !.indexByEntity = MapSet(deleted, lastEntity, lastRow - 1)],
                     StoreKeys(a), idx, 1)
            ELSE SwapRemoveStores(
                     [a EXCEPT !.entityIds = popped, !.indexByEntity = deleted],
                     StoreKeys(a), lastRow, 1)

\* Archetype.removeEntity
removeEntity(a, entity) ==
    IF entity \notin DOMAIN a.indexByEntity THEN [err |-> "", arch |-> a]
    ELSE LET idx == a.indexByEntity[entity]
             lastRow == Len(a.entityIds) - 1
             lastEntity == a.entityIds[lastRow + 1]
             popped == SubSeq([a.entityIds EXCEPT ![idx + 1] = lastEntity], 1, lastRow)
             deleted == MapDelete(a.indexByEntity, entity)
         IN IF idx # lastRow
            THEN SwapRemoveStores(
                     [a EXCEPT !.entityIds = popped,
                               !.indexByEntity = MapSet(deleted, lastEntity, idx)],
                     StoreKeys(a), idx, 1)
            ELSE SwapRemoveStores(
                     [a EXCEPT !.entityIds = popped, !.indexByEntity = deleted],
                     StoreKeys(a), lastRow, 1)

\* getComponentAt that also fails for an index past the rows
getComponentAt_rangeChecked(a, ctor, index) ==
    IF TypeId(ctor) \notin DOMAIN a.stores \/ index >= Len(a.entityIds)
    THEN [err |-> "Error", val |-> Undefined]
    ELSE IF GetThrows(a.stores[TypeId(ctor)], index)
    THEN [err |-> "TypeError", val |-> Undefined]
    ELSE [err |-> "", val |-> get(a.stores[TypeId(ctor)], index)]

\* Archetype.getComponentAt
getComponentAt(a, ctor, index) ==
    IF TypeId(ctor) \notin DOMAIN a.stores
    THEN [err |-> "Error", val |-> Undefined]
    ELSE IF GetThrows(a.stores[TypeId(ctor)], index)
    THEN [err |-> "TypeError", val |-> Undefined]
    ELSE [err |-> "", val |-> get(a.stores[TypeId(ctor)], index)]

\* copyEntityTo that hands out default instances only
copyEntityTo_defaults(a, indexSrc, target) ==
    [t \in Range(target.typeIds) |->
        Default(target.ctors[CHOOSE i \in 1..Len(target.ctors) : TypeId(target.ctors[i]) = t])]

\* copyEntityTo that copies every type of the source, not of the target
copyEntityTo_sourceTypes(a, indexSrc, target) ==
    [t \in DOMAIN a.stores |-> get(a.stores[t], indexSrc)]

\* Archetype.copyEntityTo: the Map typeId -> value for the target's constructors
copyEntityTo(a, indexSrc, target) ==
    [t \in Range(target.typeIds) |->
        IF t \notin DOMAIN a.stores
        THEN Default(target.ctors[CHOOSE i \in 1..Len(target.ctors) :
                                     /\ TypeId(target.ctors[i]) = t
                                     /\ \A j \in 1..Len(target.ctors) :
                                           TypeId(target.ctors[j]) = t => j <= i])
        ELSE get(a.stores[t], indexSrc)]

\* forEachIndexed that walks the rows from the last one down
forEachIndexed_backwards(a) ==
    [i \in 1..Len(a.entityIds) |->
        [index |-> Len(a.entityIds) - i,
         entity |-> a.entityIds[Len(a.entityIds) - i + 1]]]

\* Archetype.forEachIndexed: the calls of the visitor, in order
forEachIndexed(a) == [i \in 1..Len(a.entityIds) |-> [index |-> i - 1, entity |-> a.entityIds[i]]]

(***************************************************************************)
(* World (src/unnamed/part_004).  A world is the record                    *)
(* [nextEntityId, entityArchetype, archetypeBySignature, heap]: heap[r] is *)
(* the Archetype object with reference r (references are handed out in    *)
(* construction order, which is also the insertion order of                *)
(* archetypeBySignature); the two Maps hold references.                    *)
(***************************************************************************)
NewWorld ==
    [nextEntityId |-> 1, entityArchetype |-> <<>>, archetypeBySignature |-> <<>>,
     heap |-> <<>>]

\* createEntity that hands out the counter without advancing it
createEntity_noIncrement(w) == [id |-> w.nextEntityId, world |-> w]

\* World.createEntity: [id, world]
createEntity(w) == [id |-> w.nextEntityId, world |-> [w EXCEPT !.nextEntityId = w.nextEntityId + 1]]

\* the lookup of getOrCreateArchetype for the sorted list tmp and its
\* signature sig: the cached reference, or a new Archetype that is cached
ArchetypeFor(w, tmp, sig) ==
    IF sig \in DOMAIN w.archetypeBySignature
    THEN [ref |-> w.archetypeBySignature[sig], world |-> w]
    ELSE [ref |-> Len(w.heap) + 1,
          world |-> [w EXCEPT !.heap = Append(w.heap, NewArchetype(tmp)),
                              !.archetypeBySignature =
                                  MapSet(w.archetypeBySignature, sig, Len(w.heap) + 1)]]

\* getOrCreateArchetype that builds the signature in the caller's order
getOrCreateArchetype_unsorted(w, ctors) ==
    ArchetypeFor(w, ctors, Join([i \in 1..Len(ctors) |-> TypeId(ctors[i])]))

\* World.getOrCreateArchetype: [ref, world]
getOrCreateArchetype(w, ctors) ==
    ArchetypeFor(w, SortByTypeId(ctors),
                 Join([i \in 1..Len(ctors) |-> TypeId(SortByTypeId(ctors)[i])]))

\* the keys of a Map<ComponentConstructor, unknown> given as the sequence of
\* its entries [ctor, value], and the Map typeId -> value built from them
EntryCtors(components) == [i \in 1..Len(components) |-> components[i].ctor]

RECURSIVE EntryValues(_)
EntryValues(components) ==
    IF components = <<>> THEN <<>>
    ELSE MapSet(EntryValues(SubSeq(components, 1, Len(components) - 1)),
                TypeId(components[Len(components)].ctor),
                components[Len(components)].value)

\* `target.addEntity(entity, values); entityArchetype.set(entity, target)`,
\* added being what addEntity returned: a throw leaves the directory alone
Inserted(w, entity, target, added) ==
    IF added.err # ""
    THEN [err |-> added.err, world |-> [w EXCEPT !.heap[target] = added.arch]]
    ELSE [err |-> "",
          world |-> [w EXCEPT !.heap[target] = added.arch,
                              !.entityArchetype = MapSet(w.entityArchetype, entity, target)]]

Insert(w, entity, target, values) ==
    Inserted(w, entity, target, addEntity(w.heap[target], entity, values))

InsertInto(got, entity, values) == Insert(got.world, entity, got.ref, values)

\* World.addEntityWithComponents: [err, world]
addEntityWithComponents(w, entity, components) ==
    InsertInto(getOrCreateArchetype(w, EntryCtors(components)), entity,
               EntryValues(components))

\* the remove and insert steps shared by both branches of addComponent and
\* by removeComponent, removed being what current.removeEntity returned
Moved(w, entity, current, target, values, removed) ==
    IF removed.err # ""
    THEN [err |-> removed.err, world |-> [w EXCEPT !.heap[current] = removed.arch]]
    ELSE Insert([w EXCEPT !.heap[current] = removed.arch], entity, target, values)

\* a move that inserts into the target and leaves the old row in place
MoveEntity_keepOldRow(w, entity, current, target, values) ==
    Insert(w, entity, target, values)

MoveEntity(w, entity, current, target, values) ==
    Moved(w, entity, current, target, values, removeEntity(w.heap[current], entity))

\* curCtors of addComponent: the current constructor list, or the empty list
\* for an entity without archetype, with ctor pushed unless its typeId is found
CurCtors(cur, ctor) ==
    IF \E i \in 1..Len(cur) : TypeId(cur[i]) = TypeId(ctor) THEN cur ELSE Append(cur, ctor)

\* addComponent that re-adds the copied values without merging the new one
AddInto_noMerge(w, entity, ctor, value, got) ==
    IF entity \notin DOMAIN w.entityArchetype
    THEN InsertInto(got, entity, MapSet(<<>>, TypeId(ctor), value))
    ELSE LET current == w.entityArchetype[entity]
             idx == indexOf(got.world.heap[current], entity)
         IN IF ~idx.defined THEN [err |-> "Error", world |-> got.world]
            ELSE MoveEntity(got.world, entity, current, got.ref,
                            copyEntityTo(got.world.heap[current], idx.index,
                                         got.world.heap[got.ref]))

\* addComponent once the target is resolved (got): the direct insertion for
\* an entity without archetype, otherwise copy, merge, remove, insert; the
\* same-archetype branch and the cross-archetype branch run the same steps
AddInto(w, entity, ctor, value, got) ==
    IF entity \notin DOMAIN w.entityArchetype
    THEN InsertInto(got, entity, MapSet(<<>>, TypeId(ctor), value))
    ELSE LET current == w.entityArchetype[entity]
             idx == indexOf(got.world.heap[current], entity)
         IN IF ~idx.defined THEN [err |-> "Error", world |-> got.world]
            ELSE MoveEntity(got.world, entity, current, got.ref,
                            MapSet(copyEntityTo(got.world.heap[current], idx.index,
                                                got.world.heap[got.ref]),
                                   TypeId(ctor), value))

\* World.addComponent: [err, world]
addComponent(w, entity, ctor, value) ==
    AddInto(w, entity, ctor, value,
            getOrCreateArchetype(
                w,
                CurCtors(IF entity \in DOMAIN w.entityArchetype
                         THEN copyConstructorList(w.heap[w.entityArchetype[entity]])
                         ELSE <<>>,
                         ctor)))

\* removeComponent that re-adds the entity without the copied values
RemoveInto_noCopy(w, entity, got) ==
    LET current == w.entityArchetype[entity]
        idx == indexOf(got.world.heap[current], entity)
    IN IF ~idx.defined THEN [err |-> "", world |-> got.world]
       ELSE MoveEntity(got.world, entity, current, got.ref, <<>>)

\* removeComponent once the target is resolved (got)
RemoveInto(w, entity, got) ==
    LET current == w.entityArchetype[entity]
        idx == indexOf(got.world.heap[current], entity)
    IN IF ~idx.defined THEN [err |-> "", world |-> got.world]
       ELSE MoveEntity(got.world, entity, current, got.ref,
                       copyEntityTo(got.world.heap[current], idx.index,
                                    got.world.heap[got.ref]))

\* removeComponent that drops the directory entry with the last component
removeComponent_dropsBare(w, entity, ctor) ==
    IF entity \notin DOMAIN w.entityArchetype THEN [err |-> "", world |-> w]
    ELSE IF ~containsTypeId(w.heap[w.entityArchetype[entity]], TypeId(ctor))
    THEN [err |-> "", world |-> w]
    ELSE IF Len(w.heap[w.entityArchetype[entity]].typeIds) = 1
    THEN [err |-> "",
          world |-> [w EXCEPT !.entityArchetype = MapDelete(w.entityArchetype, entity)]]
    ELSE RemoveInto(w, entity,
                    getOrCreateArchetype(
                        w,
                        SelectSeq(copyConstructorList(w.heap[w.entityArchetype[entity]]),
                                  LAMBDA c : TypeId(c) # TypeId(ctor))))

\* removeComponent without the early return for a type the archetype lacks
removeComponent_noContainsCheck(w, entity, ctor) ==
    IF entity \notin DOMAIN w.entityArchetype THEN [err |-> "", world |-> w]
    ELSE RemoveInto(w, entity,
                    getOrCreateArchetype(
                        w,
                        SelectSeq(copyConstructorList(w.heap[w.entityArchetype[entity]]),
                                  LAMBDA c : TypeId(c) # TypeId(ctor))))

\* World.removeComponent: [err, world]
removeComponent(w, entity, ctor) ==
    IF entity \notin DOMAIN w.entityArchetype THEN [err |-> "", world |-> w]
    ELSE IF ~containsTypeId(w.heap[w.entityArchetype[entity]], TypeId(ctor))
    THEN [err |-> "", world |-> w]
    ELSE RemoveInto(w, entity,
                    getOrCreateArchetype(
                        w,
                        SelectSeq(copyConstructorList(w.heap[w.entityArchetype[entity]]),
                                  LAMBDA c : TypeId(c) # TypeId(ctor))))

\* destroyEntity that drops the directory entry and keeps the row
destroyEntity_keepRow(w, entity) ==
    IF entity \notin DOMAIN w.entityArchetype THEN [err |-> "", world |-> w]
    ELSE [err |-> "",
          world |-> [w EXCEPT !.entityArchetype = MapDelete(w.entityArchetype, entity)]]

\* destroyEntity that unregisters the archetype it has emptied
Destroyed_dropEmpty(w, entity, current, removed) ==
    [err |-> removed.err,
     world |-> [w EXCEPT !.heap[current] = removed.arch,
                         !.entityArchetype = MapDelete(w.entityArchetype, entity),
                         !.archetypeBySignature =
                             IF Len(removed.arch.entityIds) = 0
                             THEN MapDelete(w.archetypeBySignature, signature(removed.arch))
                             ELSE w.archetypeBySignature]]

\* destroyEntity after `arch.removeEntity(entity)`, removed being what it returned
Destroyed(w, entity, current, removed) ==
    IF removed.err # ""
    THEN [err |-> removed.err, world |-> [w EXCEPT !.heap[current] = removed.arch]]
    ELSE [err |-> "",
          world |-> [w EXCEPT !.heap[current] = removed.arch,
                              !.entityArchetype = MapDelete(w.entityArchetype, entity)]]

\* World.destroyEntity: [err, world]
destroyEntity(w, entity) ==
    IF entity \notin DOMAIN w.entityArchetype THEN [err |-> "", world |-> w]
    ELSE Destroyed(w, entity, w.entityArchetype[entity],
                   removeEntity(w.heap[w.entityArchetype[entity]], entity))

\* getComponent without the check that the archetype contains the type
getComponent_noContainsCheck(w, entity, ctor) ==
    IF entity \notin DOMAIN w.entityArchetype THEN [defined |-> FALSE, value |-> Undefined]
    ELSE LET current == w.heap[w.entityArchetype[entity]]
             idx == indexOf(current, entity)
         IN IF ~idx.defined THEN [defined |-> FALSE, value |-> Undefined]
            ELSE [defined |-> TRUE, value |-> getComponentAt(current, ctor, idx.index).val]

\* World.getComponent: [defined |-> FALSE] stands for undefined
getComponent(w, entity, ctor) ==
    IF entity \notin DOMAIN w.entityArchetype THEN [defined |-> FALSE, value |-> Undefined]
    ELSE LET current == w.heap[w.entityArchetype[entity]]
             idx == indexOf(current, entity)
         IN IF ~idx.defined THEN [defined |-> FALSE, value |-> Undefined]
            ELSE IF ~containsTypeId(current, TypeId(ctor))
                 THEN [defined |-> FALSE, value |-> Undefined]
            ELSE [defined |-> TRUE, value |-> getComponentAt(current, ctor, idx.index).val]

\* query that keeps an archetype holding any one of the requested types
QueryRows_anyType(a, ctors) ==
    IF \E i \in 1..Len(ctors) : containsTypeId(a, TypeId(ctors[i]))
    THEN LET visits == forEachIndexed(a)
         IN [r \in 1..Len(visits) |->
                [entity |-> visits[r].entity,
                 components |-> [i \in 1..Len(ctors) |->
                                    getComponentAt(a, ctors[i], visits[r].index).val]]]
    ELSE <<>>

\* query that fills the tuple in the archetype's sorted type order
QueryRows_sortedOrder(a, ctors) ==
    IF \A i \in 1..Len(ctors) : containsTypeId(a, TypeId(ctors[i]))
    THEN LET visits == forEachIndexed(a)
         IN [r \in 1..Len(visits) |->
                [entity |-> visits[r].entity,
                 components |-> [i \in 1..Len(ctors) |->
                                    getComponentAt(a, SortByTypeId(ctors)[i], visits[r].index).val]]]
    ELSE <<>>

\* the rows one archetype contributes to World.query(...ctors)
QueryRows(a, ctors) ==
    IF \A i \in 1..Len(ctors) : containsTypeId(a, TypeId(ctors[i]))
    THEN LET visits == forEachIndexed(a)
         IN [r \in 1..Len(visits) |->
                [entity |-> visits[r].entity,
                 components |-> [i \in 1..Len(ctors) |->
                                    getComponentAt(a, ctors[i], visits[r].index).val]]]
    ELSE <<>>

RECURSIVE QueryFrom(_, _, _)
\* the loop of query over archetypeBySignature.values() from reference r on
QueryFrom(w, ctors, r) ==
    IF r > Len(w.heap) THEN <<>>
    ELSE QueryRows(w.heap[r], ctors) \o QueryFrom(w, ctors, r + 1)

\* World.query: the result array
query(w, ctors) == QueryFrom(w, ctors, 1)

(***************************************************************************)
(* Inputs                                                                  *)
(***************************************************************************)
\* the component value a caller hands in for constructor c on behalf of
\* entity e: variant 0 is undefined, variants 1 and 2 are instances whose
\* fields hold numbers, a numeric string, a boolean or a bigint, or are absent,
\* variant 4 is an instance whose last field holds an object
ValueOf(c, e, k) ==
    IF k = 0 THEN Undefined
    ELSE IF k = 4
    THEN CASE c = "Position" -> [x |-> Num(10 * e + 4), y |-> ObjectValue]
           [] c = "Velocity" -> [vx |-> Num(e), vy |-> ObjectValue]
           [] c = "Health" -> [hp |-> ObjectValue]
           [] c = "Tag" -> [flag |-> ObjectValue]
           [] c = "Identifier" -> [id |-> ObjectValue]
    ELSE CASE c = "Position" ->
                IF k = 1 THEN [x |-> Num(10 * e + 1), y |-> Str(<<"3", ".", "5">>)]
                ELSE [x |-> Num(10 * e + 2)]
           [] c = "Velocity" -> [vx |-> Num(-k), vy |-> Num(e)]
           [] c = "Health" -> [hp |-> Num(80 + e)]
           [] c = "Tag" -> IF k = 1 THEN [flag |-> Num(e)] ELSE [flag |-> Bool(FALSE)]
           [] c = "Identifier" -> [id |-> Big(1000 * k + e)]

\* what a reader gets back for a written component value v of constructor c:
\* v (or `new c()` for undefined) set into a fresh store and read again
Coerced(c, v) ==
    get(set(NewColumnStore(Schema(c), 1).store, 0,
            IF v = Undefined THEN Default(c) ELSE v).store, 0)

RECURSIVE SeqsOver(_, _)
\* all sequences over S of length at most n
SeqsOver(S, n) ==
    IF n = 0 THEN {<<>>}
    ELSE LET shorter == SeqsOver(S, n - 1)
         IN shorter \cup {Append(q, x) : q \in shorter, x \in S}

IsInjective(q) == \A i, j \in 1..Len(q) : q[i] = q[j] => i = j

(***************************************************************************)
(* World specification                                                     *)
(***************************************************************************)
Entities == 1..MaxEntities

WorldCtors == {"Position", "Health", "Tag"}

\* the key order of the Map handed to addEntityWithComponents on behalf of
\* entity e: both orders of the same two types occur
KeyList(e) ==
    IF e % 2 = 1 THEN <<"Position", "Health">> ELSE <<"Health", "Position">>

\* the entities handed out by createEntity so far
Created == 1..(nextEntityId - 1)

\* the value variant a caller hands to addComponent for a constructor
Variant(c) ==
    CASE c = "Position" -> 2
      [] c = "Health" -> 0
      [] OTHER -> 1

World ==
    [nextEntityId |-> nextEntityId, entityArchetype |-> entityArchetype,
     archetypeBySignature |-> archetypeBySignature, heap |-> heap]

SetWorld(w) ==
    /\ nextEntityId' = w.nextEntityId
    /\ entityArchetype' = w.entityArchetype
    /\ archetypeBySignature' = w.archetypeBySignature
    /\ heap' = w.heap

\* the record of an operation: its name, the entity and constructor it was
\* called with, the error it threw ("" for none), whether the entity was
\* registered (World) or a row (Archetype) before the call, the row it had in
\* the Archetype under test (-1 for none) and the key list of the Map handed in
Op(op, e, c, err, reg, idx, keys) ==
    [op |-> op, e |-> e, c |-> c, err |-> err, reg |-> reg, idx |-> idx, keys |-> keys]

\* no addEntity and no removeEntity was called on the Archetype under test
NoAdds == [removed |-> FALSE, seq |-> <<>>]

\* the ColumnStore under test of a specification that has none
NoStore == NewColumnStore(<<>>, 1).store

NoRoundTrip == [stage |-> "none", e |-> 0, c |-> "", ref |-> 0, before |-> <<>>]

\* the components entity e holds, as getComponent reports them
Held(w, e) == {c \in WorldCtors : getComponent(w, e, c).defined}

Observed(w, e) == [c \in Held(w, e) |-> getComponent(w, e, c).value]

WorldInit ==
    /\ nextEntityId = 1
    /\ entityArchetype = <<>>
    /\ archetypeBySignature = <<>>
    /\ heap = <<>>
    /\ last = Op("init", 0, "", "", FALSE, -1, <<>>)
    /\ written = <<>>
    /\ destroyed = {}
    /\ readded = {}
    /\ roundTrip = NoRoundTrip
    /\ ops = 0
    /\ arch = NewArchetype(<<>>)
    /\ ctorsIn = <<>>
    /\ returned = <<>>
    /\ addOrder = NoAdds
    /\ colStore = NoStore

CreateEntity ==
    /\ nextEntityId <= MaxEntities
    /\ SetWorld(createEntity(World).world)
    /\ last' = Op("createEntity", createEntity(World).id, "", "", FALSE, -1, <<>>)
    /\ returned' = Append(returned, createEntity(World).id)
    /\ roundTrip' = NoRoundTrip
    /\ UNCHANGED <<written, destroyed, readded, ops, arch, ctorsIn, addOrder, colStore>>

\* the Map handed to addEntityWithComponents: the keys in the given order
Components(keys, e, k) ==
    [i \in 1..Len(keys) |-> [ctor |-> keys[i], value |-> ValueOf(keys[i], e, k)]]

AddEntityWithComponents ==
    /\ ops < MaxOps
    /\ \E e \in Created :
        \E res \in {addEntityWithComponents(World, e, Components(KeyList(e), e, 1))} :
           /\ SetWorld(res.world)
           /\ last' = Op("addEntityWithComponents", e, "", res.err,
                         e \in DOMAIN entityArchetype, -1, KeyList(e))
           /\ written' = MapSet(written, e, EntryValues(Components(KeyList(e), e, 1)))
           /\ destroyed' = destroyed \ {e}
           /\ readded' = IF e \in DOMAIN entityArchetype THEN readded \cup {e} ELSE readded
    /\ roundTrip' = NoRoundTrip
    /\ ops' = ops + 1
    /\ UNCHANGED <<arch, ctorsIn, returned, addOrder, colStore>>

AddComponent ==
    /\ ops < MaxOps
    /\ \E e \in Created, c \in WorldCtors :
        \E res \in {addComponent(World, e, c, ValueOf(c, e, Variant(c)))} :
           /\ SetWorld(res.world)
           /\ last' = Op("addComponent", e, c, res.err, e \in DOMAIN entityArchetype, -1, <<>>)
           /\ written' = MapSet(written, e,
                                MapSet(MapGetOr(written, e, <<>>), TypeId(c),
                                       ValueOf(c, e, Variant(c))))
           /\ destroyed' = destroyed \ {e}
           /\ roundTrip' =
                IF e \in DOMAIN entityArchetype /\ ~getComponent(World, e, c).defined
                THEN [stage |-> "added", e |-> e, c |-> c,
                      ref |-> entityArchetype[e], before |-> Observed(World, e)]
                ELSE NoRoundTrip
    /\ ops' = ops + 1
    /\ UNCHANGED <<readded, arch, ctorsIn, returned, addOrder, colStore>>

RemoveComponent ==
    /\ ops < MaxOps
    /\ \E e \in Created, c \in WorldCtors :
        \E res \in {removeComponent(World, e, c)} :
           /\ SetWorld(res.world)
           /\ last' = Op("removeComponent", e, c, res.err, e \in DOMAIN entityArchetype, -1, <<>>)
           /\ written' = IF e \in DOMAIN written
                         THEN MapSet(written, e, MapDelete(written[e], TypeId(c)))
                         ELSE written
           /\ roundTrip' =
                IF roundTrip.stage = "added" /\ roundTrip.e = e /\ roundTrip.c = c
                THEN [roundTrip EXCEPT !.stage = "removed"]
                ELSE NoRoundTrip
    /\ ops' = ops + 1
    /\ UNCHANGED <<destroyed, readded, arch, ctorsIn, returned, addOrder, colStore>>

DestroyEntity ==
    /\ ops < MaxOps
    /\ \E e \in Created :
        \E res \in {destroyEntity(World, e)} :
           /\ SetWorld(res.world)
           /\ last' = Op("destroyEntity", e, "", res.err, e \in DOMAIN entityArchetype, -1, <<>>)
           /\ written' = MapDelete(written, e)
           /\ destroyed' = destroyed \cup {e}
    /\ roundTrip' = NoRoundTrip
    /\ ops' = ops + 1
    /\ UNCHANGED <<readded, arch, ctorsIn, returned, addOrder, colStore>>

Next ==
    \/ CreateEntity
    \/ AddEntityWithComponents
    \/ AddComponent
    \/ RemoveComponent
    \/ DestroyEntity

Spec == WorldInit /\ [][Next]_vars

(***************************************************************************)
(* Re-added World specification: the World operations applied to the       *)
(* World in which three entities were created and added and the third one  *)
(* was handed to addEntityWithComponents a second time                     *)
(***************************************************************************)
RECURSIVE AddedInTurn(_, _, _)
\* the World after addEntityWithComponents for the entities of the sequence
\* from the i-th on
AddedInTurn(w, entities, i) ==
    IF i > Len(entities) THEN w
    ELSE AddedInTurn(addEntityWithComponents(
                         w, entities[i],
                         Components(KeyList(entities[i]), entities[i], 1)).world,
                     entities, i + 1)

ReaddedInit ==
    /\ \E w \in {AddedInTurn(createEntity(createEntity(createEntity(
                                 [nextEntityId |-> 1, entityArchetype |-> <<>>,
                                  archetypeBySignature |-> <<>>, heap |-> <<>>]
                                 ).world).world).world,
                             <<1, 2, 3, 3>>, 1)} :
        /\ nextEntityId = w.nextEntityId
        /\ entityArchetype = w.entityArchetype
        /\ archetypeBySignature = w.archetypeBySignature
        /\ heap = w.heap
    /\ last = Op("addEntityWithComponents", 3, "", "", TRUE, -1, KeyList(3))
    /\ written = [e \in 1..3 |-> EntryValues(Components(KeyList(e), e, 1))]
    /\ destroyed = {}
    /\ readded = {3}
    /\ roundTrip = NoRoundTrip
    /\ ops = 0
    /\ arch = NewArchetype(<<>>)
    /\ ctorsIn = <<>>
    /\ returned = <<1, 2, 3>>
    /\ addOrder = NoAdds
    /\ colStore = NoStore

ReaddedNext == AddEntityWithComponents \/ AddComponent \/ RemoveComponent \/ DestroyEntity

SpecWorldReadded == ReaddedInit /\ [][ReaddedNext]_vars

(***************************************************************************)
(* World failure specification: the World of the World specification,      *)
(* whose callers also hand in component values with an object in a field   *)
(***************************************************************************)
\* addEntityWithComponents with the value of the b-th key unsupported
AddEntityWithUnsupported ==
    /\ ops < MaxOps
    /\ \E e \in Created, b \in 1..2 :
        \E res \in {addEntityWithComponents(
                        World, e,
                        [i \in 1..2 |->
                            [ctor |-> KeyList(e)[i],
                             value |-> ValueOf(KeyList(e)[i], e, IF i = b THEN 4 ELSE 1)]])} :
           /\ SetWorld(res.world)
           /\ last' = Op("addEntityWithComponents", e, KeyList(e)[b], res.err,
                         e \in DOMAIN entityArchetype, -1, KeyList(e))
    /\ roundTrip' = NoRoundTrip
    /\ ops' = ops + 1
    /\ UNCHANGED <<written, destroyed, readded, arch, ctorsIn, returned, addOrder, colStore>>

\* addComponent with an unsupported value
AddComponentUnsupported ==
    /\ ops < MaxOps
    /\ \E e \in Created, c \in WorldCtors :
        \E res \in {addComponent(World, e, c, ValueOf(c, e, 4))} :
           /\ SetWorld(res.world)
           /\ last' = Op("addComponent", e, c, res.err, e \in DOMAIN entityArchetype, -1, <<>>)
    /\ roundTrip' = NoRoundTrip
    /\ ops' = ops + 1
    /\ UNCHANGED <<written, destroyed, readded, arch, ctorsIn, returned, addOrder, colStore>>

FailuresNext == Next \/ AddEntityWithUnsupported \/ AddComponentUnsupported

SpecWorldFailures == WorldInit /\ [][FailuresNext]_vars

(***************************************************************************)
(* Properties of the World                                                 *)
(***************************************************************************)
\* the argument lists of query that are examined
QueryLists == SeqsOver(WorldCtors, MaxQueryLen)

QueryEntities(w, types) == {query(w, types)[j].entity : j \in 1..Len(query(w, types))}

Invisible(e) ==
    /\ \A c \in WorldCtors : ~getComponent(World, e, c).defined
    /\ \A types \in QueryLists : e \notin QueryEntities(World, types)

Reference(e, c) ==
    IF e \in DOMAIN written /\ TypeId(c) \in DOMAIN written[e]
    THEN [defined |-> TRUE, value |-> Coerced(c, written[e][TypeId(c)])]
    ELSE [defined |-> FALSE, value |-> Undefined]

\* C2: when addEntityWithComponents is only used on entities that are not
\* registered, getComponent(e, T) is the coerced value most recently written
\* for (e, T) if e holds T, and absence otherwise.
C2_RefinesMap ==
    readded = {} =>
        \A e \in Entities, c \in WorldCtors : getComponent(World, e, c) = Reference(e, c)

\* two entities share an archetype, one of them was moved by a swap-remove,
\* and a stored value differs from the value as written (a coerced string)
C2_Witness ==
    /\ readded = {}
    /\ \E e, f \in DOMAIN entityArchetype :
        /\ e # f /\ entityArchetype[e] = entityArchetype[f]
        /\ getComponent(World, e, "Position").defined
        /\ getComponent(World, e, "Position").value # written[e]["Position"]
    /\ last.op \in {"removeComponent", "addComponent", "destroyEntity"} /\ last.reg

\* C3: addComponent(e, C, v) on an entity that does not hold C, followed by
\* removeComponent(e, C), leaves every component e held before with its
\* value, and e is again in the archetype it was in.
C3_RoundTrip ==
    roundTrip.stage = "removed" =>
        /\ Observed(World, roundTrip.e) = roundTrip.before
        /\ roundTrip.e \in DOMAIN entityArchetype
        /\ entityArchetype[roundTrip.e] = roundTrip.ref
        /\ Range(heap[roundTrip.ref].typeIds) = DOMAIN roundTrip.before

\* the round trip was made by an entity holding two components whose
\* archetype holds another entity as well
C3_Witness ==
    /\ roundTrip.stage = "removed"
    /\ Cardinality(DOMAIN roundTrip.before) = 2
    /\ \E f \in DOMAIN entityArchetype :
        f # roundTrip.e /\ entityArchetype[f] = roundTrip.ref

Matches(a, types) == \A i \in 1..Len(types) : TypeId(types[i]) \in Range(a.typeIds)

RECURSIVE SumRows(_, _, _)
\* the number of rows of the matching archetypes from reference r on
SumRows(w, types, r) ==
    IF r > Len(w.heap) THEN 0
    ELSE (IF Matches(w.heap[r], types) THEN Len(w.heap[r].entityIds) ELSE 0)
         + SumRows(w, types, r + 1)

\* C4: query(types) returns one result per occupied row of every archetype
\* whose type set is a superset of the requested types, and nothing else.
C4_QueryExact ==
    \A types \in QueryLists :
        LET res == query(World, types)
        IN /\ Len(res) = SumRows(World, types, 1)
           /\ \A r \in 1..Len(heap) :
                Matches(heap[r], types) =>
                    \A i \in 1..Len(heap[r].entityIds) :
                        \E j \in 1..Len(res) :
                            /\ res[j].entity = heap[r].entityIds[i]
                            /\ \A n \in 1..Len(types) :
                                res[j].components[n] =
                                    get(heap[r].stores[TypeId(types[n])], i - 1)
           /\ \A j \in 1..Len(res) :
                \E r \in 1..Len(heap) :
                    /\ Matches(heap[r], types)
                    /\ res[j].entity \in Range(heap[r].entityIds)

\* a query is answered from a matching archetype with rows while another
\* matching archetype is empty and an archetype lacking the type has rows
C4_Witness ==
    \E types \in QueryLists, r1, r2, r3 \in 1..Len(heap) :
        /\ Len(types) > 0
        /\ Matches(heap[r1], types) /\ Len(heap[r1].entityIds) > 0
        /\ Matches(heap[r2], types) /\ Len(heap[r2].entityIds) = 0
        /\ ~Matches(heap[r3], types) /\ Len(heap[r3].entityIds) > 0

\* C5: query(A, B) and query(B, A) return the same entities, and the i-th
\* element of every component tuple is the value of the i-th type argument:
\* it has the fields of that type, it is what a row of the entity holds for
\* that type, and for an entity with a single row it is what getComponent
\* returns for that type.
C5_QueryOrder ==
    \A A, B \in WorldCtors :
        \E ab \in {query(World, <<A, B>>)}, ba \in {query(World, <<B, A>>)} :
           /\ {ab[j].entity : j \in 1..Len(ab)} = {ba[j].entity : j \in 1..Len(ba)}
           /\ Len(ab) = Len(ba)
           /\ \A j \in 1..Len(ab) :
                /\ DOMAIN ab[j].components[1] = SchemaKeys(Schema(A))
                /\ DOMAIN ab[j].components[2] = SchemaKeys(Schema(B))
                /\ \E r \in 1..Len(heap) :
                    /\ Matches(heap[r], <<A, B>>)
                    /\ \E i \in 1..Len(heap[r].entityIds) :
                        /\ heap[r].entityIds[i] = ab[j].entity
                        /\ ab[j].components[1] = get(heap[r].stores[TypeId(A)], i - 1)
                        /\ ab[j].components[2] = get(heap[r].stores[TypeId(B)], i - 1)
                /\ ab[j].entity \notin readded =>
                    /\ ab[j].components[1] = getComponent(World, ab[j].entity, A).value
                    /\ ab[j].components[2] = getComponent(World, ab[j].entity, B).value

\* two entities are returned for (Position, Health), an argument order that
\* is not the sorted order of the archetype
C5_Witness ==
    /\ Cardinality(QueryEntities(World, <<"Position", "Health">>)) = 2
    /\ readded = {}

\* C8: the World resolves two component-type lists to the same archetype
\* exactly when they contain the same set of typeIds: two registered
\* entities are in the same archetype exactly when the type sets handed in
\* for them are equal, whatever the order of the lists, and the archetype
\* an entity is in has exactly the types handed in for it.
C8_SameArchetypeIffSameSet ==
    /\ \A e, f \in DOMAIN entityArchetype :
        (entityArchetype[e] = entityArchetype[f]) <=> (DOMAIN written[e] = DOMAIN written[f])
    /\ \A e \in DOMAIN entityArchetype :
        Range(heap[entityArchetype[e]].typeIds) = DOMAIN written[e]
    /\ \A r1, r2 \in 1..Len(heap) :
        Range(heap[r1].typeIds) = Range(heap[r2].typeIds) => r1 = r2

\* an entity added with the keys in unsorted order shares the only
\* archetype with an entity added before
C8_Witness ==
    /\ last.op = "addEntityWithComponents" /\ ~last.reg
    /\ last.keys = <<"Position", "Health">>
    /\ Len(heap) = 1 /\ Len(heap[1].entityIds) = 2

\* C11: createEntity returns 1 on the first call and a strictly larger id
\* on every later call, whatever operations happen in between; no id is
\* returned twice.
C11_FreshIds ==
    /\ Len(returned) > 0 => returned[1] = 1
    /\ \A i, j \in 1..Len(returned) : i < j => returned[i] < returned[j]

\* createEntity has been called a second time after the first entity was
\* given components and destroyed
C11_Witness ==
    /\ Len(returned) = 2 /\ last.op = "createEntity" /\ last.e = returned[2]
    /\ 1 \in destroyed /\ Len(heap) > 0 /\ entityArchetype = <<>>

\* every signature registered before a step is registered after it, under
\* the same Archetype object, which still has that signature
RegistrationKept ==
    /\ Len(heap') >= Len(heap)
    /\ \A sig \in DOMAIN archetypeBySignature :
        /\ sig \in DOMAIN archetypeBySignature'
        /\ archetypeBySignature'[sig] = archetypeBySignature[sig]
        /\ signature(heap'[archetypeBySignature[sig]]) = sig

\* C12: once the World has created an archetype for a signature, that same
\* archetype stays registered under that signature: no operation removes or
\* replaces it, even when it holds no entity.
C12_ArchetypeRetained == [][RegistrationKept]_vars

\* destroyEntity has just emptied an archetype, which is still registered
\* next to another archetype that was emptied by a migration
C12_Witness ==
    /\ last.op = "destroyEntity" /\ last.reg /\ entityArchetype = <<>>
    /\ Cardinality(DOMAIN archetypeBySignature) >= 2
    /\ \A sig \in DOMAIN archetypeBySignature :
        Len(heap[archetypeBySignature[sig]].entityIds) = 0

\* the number of rows entity e occupies over all archetypes of world w
RowCount(w, e) ==
    Cardinality({rc \in (1..Len(w.heap)) \X (1..MaxOps) :
                    /\ rc[2] <= Len(w.heap[rc[1]].entityIds)
                    /\ w.heap[rc[1]].entityIds[rc[2]] = e})

\* the step is a call addComponent(e, c, v) on an entity that holds c
Overwrites(e, c) ==
    /\ ops' = ops + 1 /\ last'.op = "addComponent" /\ last'.e = e /\ last'.c = c
    /\ getComponent(World, e, c).defined

\* what the claim states about such a step
Overwritten(e, c) ==
    /\ last'.err = ""
    /\ e \in DOMAIN entityArchetype'
    /\ entityArchetype'[e] = entityArchetype[e]
    /\ getComponent(World', e, c) =
            [defined |-> TRUE, value |-> Coerced(c, ValueOf(c, e, Variant(c)))]
    /\ \A d \in WorldCtors \ {c} : getComponent(World', e, d) = getComponent(World, e, d)
    /\ RowCount(World', e) = 1

Extends(e, c) ==
    /\ ops' = ops + 1 /\ last'.op = "addComponent" /\ last'.e = e /\ last'.c = c
    /\ e \in DOMAIN entityArchetype
    /\ ~containsTypeId(heap[entityArchetype[e]], TypeId(c))

\* what the claim states about such a step
Extended(e, c) ==
    /\ last'.err = ""
    /\ e \in DOMAIN entityArchetype'
    /\ Range(heap'[entityArchetype'[e]].typeIds) =
            Range(heap[entityArchetype[e]].typeIds) \cup {TypeId(c)}
    /\ getComponent(World', e, c) =
            [defined |-> TRUE, value |-> Coerced(c, ValueOf(c, e, Variant(c)))]
    /\ \A d \in Held(World, e) : getComponent(World', e, d) = getComponent(World, e, d)
    /\ e \notin Range(heap'[entityArchetype[e]].entityIds)

Drops(e, c) ==
    /\ ops' = ops + 1 /\ last'.op = "removeComponent" /\ last'.e = e /\ last'.c = c
    /\ getComponent(World, e, c).defined

\* C15: removeComponent(e, T) on an entity that holds T moves e to the
\* archetype for (current types without T): afterwards getComponent(e, T)
\* reports absence and every other component of e returns the value it had
\* before.
C15_RemoveKeepsOthers ==
    [][\A e \in Entities, c \in WorldCtors :
          Drops(e, c) =>
              /\ last'.err = ""
              /\ e \in DOMAIN entityArchetype'
              /\ Range(heap'[entityArchetype'[e]].typeIds) =
                      Range(heap[entityArchetype[e]].typeIds) \ {TypeId(c)}
              /\ ~getComponent(World', e, c).defined
              /\ Held(World', e) = Held(World, e) \ {c}
              /\ \A d \in Held(World, e) \ {c} :
                    getComponent(World', e, d) = getComponent(World, e, d)]_vars

\* removeComponent has just taken Health from an entity that keeps a
\* Position whose stored value differs from the value as written, while
\* the archetype it left still holds another entity
C15_Witness ==
    /\ last.op = "removeComponent" /\ last.c = "Health" /\ last.reg /\ last.err = ""
    /\ Held(World, last.e) = {"Position"}
    /\ getComponent(World, last.e, "Position").value # written[last.e]["Position"]
    /\ \E f \in DOMAIN entityArchetype :
        /\ f # last.e
        /\ Held(World, f) = {"Position", "Health"}

\* the step is a call removeComponent(e, c) for an entity that is not
\* registered or whose archetype does not contain c
RemovesNothing(e, c) ==
    /\ ops' = ops + 1 /\ last'.op = "removeComponent" /\ last'.e = e /\ last'.c = c
    /\ \/ e \notin DOMAIN entityArchetype
       \/ ~containsTypeId(heap[entityArchetype[e]], TypeId(c))

\* C16: removeComponent(e, T) when e is not registered, or when e's
\* archetype does not contain T, changes nothing: the entity directory, the
\* signature directory and every archetype's rows and values are the same
\* as before the call.
C16_RemoveAbsentIsNoOp ==
    [][\A e \in Entities, c \in WorldCtors :
          RemovesNothing(e, c) =>
              /\ last'.err = ""
              /\ UNCHANGED <<nextEntityId, entityArchetype, archetypeBySignature, heap>>]_vars

\* removeComponent(e, Tag) has just been called for a registered entity, no
\* archetype with Tag or without Position or Health was ever created, and
\* the only archetype holds two entities
C16_Witness ==
    /\ last.op = "removeComponent" /\ last.reg /\ last.c = "Tag" /\ last.err = ""
    /\ Len(heap) = 1 /\ heap[1].typeIds = <<"Health", "Position">>
    /\ heap[1].entityIds[1] = last.e /\ Len(heap[1].entityIds) = 2

\* getComponent(e, c) reaches `current.getComponentAt(ctor, idx)`
Resolves(e, c) ==
    /\ e \in DOMAIN entityArchetype
    /\ containsTypeId(heap[entityArchetype[e]], TypeId(c))
    /\ indexOf(heap[entityArchetype[e]], e).defined

ArchEntities == 1..MaxArchEntities

ArchCtorLists == {<<"Tag", "Position", "Health">>, <<"Identifier">>}

\* the value Map handed to addEntity: every type with variant 1, every
\* type with variant 2, the empty Map (k = 0), or a partial Map holding
\* variant 1 of the type that sorts last and nothing for the others (k = 3)
ValueMap(a, e, k) ==
    IF k = 0 THEN <<>>
    ELSE IF k = 3
    THEN MapSet(<<>>, a.typeIds[Len(a.typeIds)], ValueOf(a.ctors[Len(a.ctors)], e, 1))
    ELSE [t \in Range(a.typeIds) |->
            ValueOf(a.ctors[CHOOSE i \in 1..Len(a.ctors) : TypeId(a.ctors[i]) = t], e, k)]

EmptyWorld ==
    /\ nextEntityId = 1
    /\ entityArchetype = <<>>
    /\ archetypeBySignature = <<>>
    /\ heap = <<>>
    /\ destroyed = {}
    /\ roundTrip = NoRoundTrip
    /\ returned = <<>>
    /\ addOrder = NoAdds
    /\ colStore = NoStore

ArchInit ==
    /\ EmptyWorld
    /\ \E list \in ArchCtorLists : ctorsIn = list /\ arch = NewArchetype(list)
    /\ last = Op("init", 0, "", "", FALSE, -1, <<>>)
    /\ written = <<>>
    /\ readded = {}
    /\ ops = 0

ArchFrame ==
    UNCHANGED <<nextEntityId, entityArchetype, archetypeBySignature, heap,
                destroyed, roundTrip, ctorsIn, returned, colStore>>

\* the variant of the value Map handed to addEntity on behalf of entity e:
\* it changes from call to call, so an entity added again brings other values
ArchVariant(e) == (e + ops) % 4

ArchAddEntity ==
    /\ ops < MaxArchOps
    /\ \E e \in ArchEntities :
        \E res \in {addEntity(arch, e, ValueMap(arch, e, ArchVariant(e)))} :
           /\ arch' = res.arch
           /\ last' = Op("addEntity", e, "", res.err, e \in DOMAIN arch.indexByEntity,
                         indexOf(arch, e).index, <<>>)
           /\ written' = MapSet(written, e, ValueMap(arch, e, ArchVariant(e)))
           /\ readded' = IF e \in Range(arch.entityIds) THEN readded \cup {e} ELSE readded
           /\ addOrder' = IF addOrder.removed THEN addOrder
                          ELSE [addOrder EXCEPT !.seq = Append(addOrder.seq, e)]
    /\ ops' = ops + 1
    /\ ArchFrame

ArchRemoveEntity ==
    /\ ops < MaxArchOps
    /\ \E e \in ArchEntities :
        \E res \in {removeEntity(arch, e)} :
           /\ arch' = res.arch
           /\ last' = Op("removeEntity", e, "", res.err, e \in DOMAIN arch.indexByEntity,
                         IF e \in DOMAIN arch.indexByEntity THEN arch.indexByEntity[e] ELSE -1,
                         <<>>)
           /\ written' = MapDelete(written, e)
           /\ addOrder' = IF e \in DOMAIN arch.indexByEntity
                          THEN [removed |-> TRUE, seq |-> <<>>] ELSE addOrder
    /\ ops' = ops + 1
    /\ UNCHANGED readded
    /\ ArchFrame

ArchNext == ArchAddEntity \/ ArchRemoveEntity

SpecArchetype == ArchInit /\ [][ArchNext]_vars

(***************************************************************************)
(* Archetype read specification: the Archetype of the Archetype            *)
(* specification, with getComponentAt and copyEntityTo called in between   *)
(***************************************************************************)
\* the record of a reading call: Op with the value the call returned
Returned(op, c, err, idx, keys, value) ==
    [op |-> op, e |-> 0, c |-> c, err |-> err, reg |-> FALSE, idx |-> idx,
     keys |-> keys, out |-> value]

\* getComponentAt is called with a constructor that is part of one of the
\* archetypes under test and not of the other, at a negative index, at the
\* first row and at the first index past the rows
ArchGetComponentAt ==
    /\ ops <= MaxReadOps
    /\ \E c \in {"Position", "Identifier"}, index \in {-1, 0, size(arch)} :
        \E res \in {getComponentAt(arch, c, index)} :
           last' = Returned("getComponentAt", c, res.err, index, <<>>, res.val)
    /\ UNCHANGED <<arch, written, readded, ops, addOrder>>
    /\ ArchFrame

\* copyEntityTo is called for every row, with a new target archetype that
\* shares one type with one of the archetypes under test
ArchCopyEntityTo ==
    /\ ops <= MaxReadOps
    /\ \E list \in {<<"Position", "Velocity">>, <<"Identifier", "Health">>},
          indexSrc \in 0..(size(arch) - 1) :
        last' = Returned("copyEntityTo", "", "", indexSrc, list,
                         copyEntityTo(arch, indexSrc, NewArchetype(list)))
    /\ UNCHANGED <<arch, written, readded, ops, addOrder>>
    /\ ArchFrame

\* forEachIndexed is called with a visitor that records its calls
ArchForEachIndexed ==
    /\ ops <= MaxReadOps
    /\ last' = Returned("forEachIndexed", "", "", -1, <<>>, forEachIndexed(arch))
    /\ UNCHANGED <<arch, written, readded, ops, addOrder>>
    /\ ArchFrame

ArchReadsNext ==
    \/ ArchAddEntity
    \/ ArchRemoveEntity
    \/ ArchGetComponentAt
    \/ ArchCopyEntityTo
    \/ ArchForEachIndexed

SpecArchetypeReads == ArchInit /\ [][ArchReadsNext]_vars

(***************************************************************************)
(* ColumnStore specification: one ColumnStore, built from the schema of    *)
(* the ColumnStore tests or from a schema of one field of one field type,  *)
(* under set, swapRemove and copyFrom                                      *)
(***************************************************************************)
\* the schemas handed to the constructor: the schema of the tests (the type
\* Comp), the unsupported schema of the tests, alone and behind a supported
\* field, and one field "v" of every field type
StoreSchemas ==
    {<<[key |-> "x", type |-> "f32"], [key |-> "flag", type |-> "bool"],
       [key |-> "id", type |-> "bi64"], [key |-> "name", type |-> "i32"]>>,
     <<[key |-> "bad", type |-> "not_a_type"]>>,
     <<[key |-> "x", type |-> "f32"], [key |-> "bad", type |-> "not_a_type"]>>}
        \cup {<<[key |-> "v", type |-> ft]>> : ft \in FieldTypes}

\* records of the type Comp: three that `set` accepts (the last one with
\* strings), one without id and name, one with an object in the field flag
CompValues ==
    <<[x |-> Half(3), flag |-> Bool(TRUE), id |-> Big(10), name |-> Num(42)],
      [x |-> Half(-7), flag |-> Bool(FALSE), id |-> Big(123), name |-> Num(7)],
      [x |-> Str(<<"2", ".", "5">>), flag |-> Bool(TRUE), id |-> Big(-1),
       name |-> Str(<<"4", "2">>)],
      [x |-> Half(19), flag |-> Bool(TRUE)],
      [x |-> Half(9), flag |-> ObjectValue, id |-> Big(1), name |-> Num(0)]>>

\* records for a schema of the one field "v": the empty record and a value
\* of every runtime kind
KindValues ==
    {<<>>} \cup
    {[v |-> val] : val \in {Undefined, ObjectValue, Bool(TRUE), Bool(FALSE), Big(10),
                            Big(-1), Num(4097), Half(-7), Num(0),
                            Str(<<"3", ".", "5">>), Str(<<"4", "2">>)}}

\* the records handed to `set` on a store of the given schema; k selects
\* among the accepted records of the type Comp
StoreValues(schema, k) ==
    IF Len(schema) > 1
    THEN {CompValues[(k % 3) + 1], CompValues[4], CompValues[5]}
    ELSE KindValues

\* the second store of copyFrom: same schema, two rows
OtherStore(schema) ==
    LET rows == IF Len(schema) > 1 THEN <<CompValues[3], CompValues[2]>>
                ELSE IF schema[1].type \in BigIntTypes
                THEN <<[v |-> Big(-1)], [v |-> Big(10)]>>
                ELSE <<[v |-> Half(7)], [v |-> Num(1)]>>
    IN set(set(NewColumnStore(schema, 2).store, 0, rows[1]).store, 1, rows[2]).store

StoreInit ==
    /\ EmptyWorld
    /\ arch = NewArchetype(<<>>)
    /\ ctorsIn = <<>>
    /\ last = Op("init", 0, "", "", FALSE, -1, <<>>)
    /\ written = <<>>
    /\ readded = {}
    /\ ops = 0

StoreFrame ==
    UNCHANGED <<nextEntityId, entityArchetype, archetypeBySignature, heap, destroyed,
                roundTrip, ctorsIn, returned, arch, written, readded, addOrder>>

\* the initial capacity handed to the constructor with the given schema: 2 as
\* in the tests, 3 for a schema of one field
InitialCapacity(schema) == IF Len(schema) > 1 THEN 2 ELSE 3

\* new ColumnStore(schema, initialCapacity)
StoreConstruct ==
    /\ last.op = "init"
    /\ \E schema \in StoreSchemas :
        \E res \in {NewColumnStore(schema, InitialCapacity(schema))} :
           /\ colStore' = res.store
           /\ last' = Returned("construct", "", res.err, -1, <<>>, Undefined)
    /\ ops' = ops
    /\ StoreFrame

\* the store was constructed and may be called once more
StoreLive ==
    /\ last.op # "init"
    /\ DOMAIN colStore.typedArrayMap # {}
    /\ ops < (IF Len(colStore.schema) > 1 THEN MaxStoreOps ELSE MaxKindOps)

StoreSet ==
    /\ StoreLive
    /\ \E index \in -1..MaxIndex :
        \E value \in StoreValues(colStore.schema, index + ops) :
           \E res \in {set(colStore, index, value)} :
              /\ colStore' = res.store
              /\ last' = Returned("set", "", res.err, index, <<>>, value)
    /\ ops' = ops + 1
    /\ StoreFrame

StoreSwapRemove ==
    /\ StoreLive
    /\ \E index \in -1..MaxIndex :
        \E res \in {swapRemove(colStore, index)} :
           /\ colStore' = res.store
           /\ last' = Returned("swapRemove", "", res.err, index, <<>>, Undefined)
    /\ ops' = ops + 1
    /\ StoreFrame

StoreCopyFrom ==
    /\ StoreLive
    /\ \E indexTarget \in {-1, 0, MaxIndex}, indexSrc \in -1..2 :
        \E res \in {copyFrom(colStore, indexTarget, OtherStore(colStore.schema), indexSrc)} :
           /\ colStore' = res.store
           /\ last' = Returned("copyFrom", "", res.err, indexTarget, <<indexSrc>>,
                               OtherStore(colStore.schema))
    /\ ops' = ops + 1
    /\ StoreFrame

StoreNext == StoreConstruct \/ StoreSet \/ StoreSwapRemove \/ StoreCopyFrom

SpecColumnStore == StoreInit /\ [][StoreNext]_vars

(***************************************************************************)
(* Constructor specification: the Archetype constructor applied to a list  *)
(* of constructors in any order, repetitions included                      *)
(***************************************************************************)
CtorLists == SeqsOver(Ctors, MaxCtorList)

CtorInit ==
    /\ EmptyWorld
    /\ ctorsIn \in CtorLists
    /\ arch = NewArchetype(<<>>)
    /\ last = Op("init", 0, "", "", FALSE, -1, <<>>)
    /\ written = <<>>
    /\ readded = {}
    /\ ops = 0

Construct ==
    /\ last.op = "init"
    /\ arch' = NewArchetype(ctorsIn)
    /\ last' = Op("construct", 0, "", "", FALSE, -1, ctorsIn)
    /\ ops' = ops + 1
    /\ UNCHANGED <<nextEntityId, entityArchetype, archetypeBySignature, heap,
                   destroyed, roundTrip, ctorsIn, written, readded, returned, addOrder, colStore>>

CtorNext == Construct

SpecConstructor == CtorInit /\ [][CtorNext]_vars

(***************************************************************************)
(* Properties of the Archetype                                             *)
(***************************************************************************)
\* the rows holding entity e
RowsOf(a, e) == {i \in 1..Len(a.entityIds) : a.entityIds[i] = e}

\* the value written for (e, typeId): the caller's, or `new c()` when omitted
WrittenOrDefault(a, e, t) ==
    LET c == a.ctors[CHOOSE i \in 1..Len(a.ctors) : TypeId(a.ctors[i]) = t]
    IN Coerced(c, MapGet(MapGetOr(written, e, <<>>), t))

Synchronized(a) ==
    /\ \A e \in Range(a.entityIds) :
        /\ e \in DOMAIN a.indexByEntity
        /\ RowsOf(a, e) = {a.indexByEntity[e] + 1}
        /\ \A t \in DOMAIN a.stores :
            get(a.stores[t], a.indexByEntity[e]) = WrittenOrDefault(a, e, t)
    /\ DOMAIN a.indexByEntity \subseteq Range(a.entityIds)

RemovalKeepsTheRest ==
    (last'.op = "removeEntity" /\ last'.reg) =>
        /\ last'.err = ""
        /\ size(arch') = size(arch) - 1
        /\ ~indexOf(arch', last'.e).defined
        /\ DOMAIN arch'.indexByEntity = DOMAIN arch.indexByEntity \ {last'.e}
        /\ \A f \in DOMAIN arch'.indexByEntity :
            \A i \in 1..Len(arch.ctors) :
                getComponentAt(arch', arch.ctors[i], arch'.indexByEntity[f]) =
                    getComponentAt(arch, arch.ctors[i], arch.indexByEntity[f])

C18_DefaultFill ==
    (last.op = "addEntity" /\ last.e \in DOMAIN written) =>
        /\ last.err = ""
        /\ indexOf(arch, last.e).defined
        /\ indexOf(arch, last.e).index = size(arch) - 1
        /\ \A i \in 1..Len(arch.ctors) :
            getComponentAt(arch, arch.ctors[i], indexOf(arch, last.e).index) =
                [err |-> "",
                 val |-> IF TypeId(arch.ctors[i]) \in DOMAIN written[last.e]
                         THEN Coerced(arch.ctors[i], written[last.e][TypeId(arch.ctors[i])])
                         ELSE Default(arch.ctors[i])]

\* addEntity was handed a Map holding Tag only, for an archetype that also
\* has Position and Health, as the fourth call or later, and wrote the
\* second row, where Health reads as its default of 100
C18_Witness ==
    /\ last.op = "addEntity" /\ last.err = ""
    /\ DOMAIN written[last.e] = {"Tag"}
    /\ Range(arch.typeIds) = {"Health", "Position", "Tag"}
    /\ indexOf(arch, last.e).index = 1
    /\ ops >= 4
    /\ getComponentAt(arch, "Health", 1).val = [hp |-> Num(100)]

\* C19: Archetype.getComponentAt(type, index) fails with the
\* component-not-present error exactly when type is not part of the
\* archetype's signature, whatever the index, and the archetype is unchanged
\* by the call.
C19_NotPresentError ==
    [][last'.op = "getComponentAt" =>
          /\ (last'.err = "Error") <=> (TypeId(last'.c) \notin Range(arch.typeIds))
          /\ (last'.err = "" /\ last'.idx >= 0) =>
                DOMAIN last'.out = SchemaKeys(Schema(last'.c))
          /\ arch' = arch]_vars

\* getComponentAt has just failed for a type the archetype lacks, at the
\* index of an occupied row
C19_Witness ==
    /\ last.op = "getComponentAt" /\ last.err = "Error" /\ last.idx = 0
    /\ last.c = "Identifier"
    /\ size(arch) = 2 /\ Range(arch.typeIds) = {"Health", "Position", "Tag"}

\* the constructor of target archetype a for typeId t
CtorOf(a, t) == a.ctors[CHOOSE i \in 1..Len(a.ctors) : TypeId(a.ctors[i]) = t]

\* C20: Archetype.copyEntityTo(indexSrc, target) returns a map whose key
\* set is exactly the target's typeIds: for a type also owned by the source
\* the value is the source's stored value at indexSrc (the coerced value
\* written for the entity of that row when no entity was added twice), for
\* a type only in the target it is a default-constructed instance; types
\* only in the source are absent, and the source archetype is not modified.
C20_CopyEntityTo ==
    [][last'.op = "copyEntityTo" =>
          /\ DOMAIN last'.out = {TypeId(last'.keys[i]) : i \in 1..Len(last'.keys)}
          /\ \A t \in DOMAIN last'.out :
                IF t \in Range(arch.typeIds)
                THEN /\ last'.out[t] =
                            getComponentAt(arch, CtorOf(arch, t), last'.idx).val
                     /\ readded = {} =>
                            last'.out[t] =
                                WrittenOrDefault(arch, arch.entityIds[last'.idx + 1], t)
                ELSE last'.out[t] = Default(CtorOf(NewArchetype(last'.keys), t))
          /\ arch' = arch]_vars

\* copyEntityTo has just copied the second row of an archetype with
\* Position, Tag and Health to a target with Identifier and Health: Health
\* is copied, Identifier is a default instance, Position and Tag are absent
C20_Witness ==
    /\ last.op = "copyEntityTo" /\ last.idx = 1
    /\ last.keys = <<"Identifier", "Health">>
    /\ Range(arch.typeIds) = {"Health", "Position", "Tag"}
    /\ DOMAIN last.out = {"Health", "Identifier"}
    /\ last.out["Identifier"] = [id |-> Big(0)]
    /\ last.out["Health"] # Default("Health")

\* C21: Archetype.forEachIndexed calls the visitor exactly once per
\* occupied row, with indices 0, 1, ..., size-1 in increasing order and the
\* entity currently stored at each row (the row indexOf reports for an
\* entity that has one row); when no removal has happened the entities come
\* in the order in which they were added.
C21_ForEachIndexed ==
    last.op = "forEachIndexed" =>
        /\ Len(last.out) = size(arch)
        /\ \A i \in 1..Len(last.out) :
            /\ last.out[i].index = i - 1
            /\ last.out[i].entity = arch.entityIds[i]
            /\ \A t \in DOMAIN arch.stores : last.out[i].index < arch.stores[t].size
            /\ last.out[i].entity \notin readded =>
                    indexOf(arch, last.out[i].entity) =
                        [defined |-> TRUE, index |-> last.out[i].index]
        /\ ~addOrder.removed =>
                [i \in 1..Len(last.out) |-> last.out[i].entity] = addOrder.seq

\* forEachIndexed has just visited three rows of an archetype from which no
\* entity was removed, the entities not having been added in increasing order
C21_Witness ==
    /\ last.op = "forEachIndexed" /\ Len(last.out) = 3 /\ ~addOrder.removed
    /\ last.out[1].entity > last.out[2].entity
    /\ last.out[3].index = 2

(***************************************************************************)
(* Properties of the constructor                                           *)
(***************************************************************************)
TypeIdsOf(list) == [i \in 1..Len(list) |-> TypeId(list[i])]

IsSortedByTypeId(typeIds) ==
    \A i, j \in 1..Len(typeIds) : i < j => localeCompare(typeIds[i], typeIds[j]) <= 0

\* the permutations of a list of distinct elements
PermutationsOf(list) ==
    {q \in CtorLists : Len(q) = Len(list) /\ IsInjective(q) /\ Range(q) = Range(list)}

\* C9: every permutation of a list of types with distinct typeIds yields the
\* same signature and the same ordered type list, sorted by typeId.
C9_Canonical ==
    (last.op = "construct" /\ IsInjective(TypeIdsOf(ctorsIn))) =>
        /\ IsSortedByTypeId(arch.typeIds)
        /\ Range(arch.typeIds) = Range(TypeIdsOf(ctorsIn))
        /\ \A q \in PermutationsOf(ctorsIn) :
            /\ signature(NewArchetype(q)) = signature(arch)
            /\ copyConstructorList(NewArchetype(q)) = copyConstructorList(arch)

\* an archetype was built from three types handed in descending order
C9_Witness ==
    /\ last.op = "construct"
    /\ ctorsIn = <<"Tag", "Position", "Health">>
    /\ signature(arch) = "Health|Position|Tag"

RECURSIVE Dedup(_)
\* the list without the later repetitions of a typeId
Dedup(list) ==
    IF list = <<>> THEN <<>>
    ELSE LET front == Dedup(SubSeq(list, 1, Len(list) - 1))
             x == list[Len(list)]
         IN IF \E i \in 1..Len(front) : TypeId(front[i]) = TypeId(x)
            THEN front ELSE Append(front, x)

\* C10 (as stated): a list in which a typeId is repeated yields the
\* signature of the list without the repetition, and one Column Store per
\* distinct typeId.
C10_SignatureDeduplicated ==
    last.op = "construct" =>
        /\ signature(arch) = signature(NewArchetype(Dedup(ctorsIn)))
        /\ DOMAIN arch.stores = Range(TypeIdsOf(ctorsIn))

\* C10 (amended): the signature is the sorted list of typeIds joined without
\* removing repetitions: a repeated typeId occurs in it as often as in the
\* list, so it differs from the signature of the list without the
\* repetition; the archetype owns one Column Store per distinct typeId.
C10_SignatureKeepsRepetitions ==
    last.op = "construct" =>
        /\ signature(arch) = Join(TypeIdsOf(SortByTypeId(ctorsIn)))
        /\ Len(arch.typeIds) = Len(ctorsIn)
        /\ (~IsInjective(TypeIdsOf(ctorsIn)) =>
                signature(arch) # signature(NewArchetype(Dedup(ctorsIn))))
        /\ DOMAIN arch.stores = Range(TypeIdsOf(ctorsIn))

\* an archetype was built from a list that repeats a type
C10_Witness ==
    /\ last.op = "construct"
    /\ ctorsIn = <<"Position", "Health", "Position">>
    /\ signature(arch) = "Health|Position|Position"

(***************************************************************************)
(* Properties of the ColumnStore                                           *)
(***************************************************************************)
NumberTypes == FieldTypes \ (BigIntTypes \cup {"bool"})

\* r is the number of h half units as a typed array of the given number type
\* keeps it: a float within half a unit in the last place of its significand
\* (exactly when the significand holds it), an integer wrapped into the width
\* (clamped for u8c)
StoredAs(type, h, r) ==
    /\ r.t = "number"
    /\ CASE type = "f64" -> r.n = h
         [] type \in {"f16", "f32"} ->
                /\ Abs(h) < Pow2(FloatBits(type)) => r.n = h
                /\ Abs(r.n - h) * Pow2(FloatBits(type)) <= Abs(h)
         [] type = "u8c" ->
                /\ r.n \in {2 * i : i \in 0..255}
                /\ h <= 0 => r.n = 0
                /\ h >= 510 => r.n = 510
                /\ h \in 0..510 => Abs(r.n - h) <= 1
         [] type = "i32" -> r = Num(Trunc(h))
         [] type = "u32" ->
                /\ r.n = 2 * Trunc(h)
                /\ r.s = IF Trunc(h) < 0 THEN <<"+2^32">> ELSE <<>>
         [] OTHER ->
                /\ r.n % 2 = 0
                /\ (r.n \div 2) \in (IF type \in {"i8", "i16"}
                                     THEN -Pow2(IntBits(type) - 1)..(Pow2(IntBits(type) - 1) - 1)
                                     ELSE 0..(Pow2(IntBits(type)) - 1))
                /\ ((r.n \div 2) - Trunc(h)) % Pow2(IntBits(type)) = 0

\* what get returns for a field of the given type after a successful set of
\* the value raw, for the values C22 names
ReadsBack(type, raw, r) ==
    /\ (raw.t = "boolean" /\ type = "bool") => r = raw
    /\ (raw.t = "bigint" /\ (type = "bi64" \/ (type = "biu64" /\ raw.n >= 0))) => r = raw
    /\ (raw.t = "number" /\ type \in NumberTypes) => StoredAs(type, raw.n, r)
    /\ (raw = Str(<<"3", ".", "5">>) /\ type \in {"f16", "f32", "f64"}) => r = Half(7)
    /\ (raw = Str(<<"4", "2">>) /\ type \in NumberTypes) => r = Num(42)

\* the value raw is of the runtime kind that the field type takes
KindMatches(type, raw) ==
    \/ raw.t = "boolean" /\ type = "bool"
    \/ raw.t = "bigint" /\ type \in BigIntTypes
    \/ raw.t \in {"number", "string"} /\ type \in NumberTypes

\* C22: set(i, v) followed by get(i) returns, for each field, the value of the
\* field type's coercion rule: a boolean true reads back as true from a bool
\* field, a 64-bit integer exactly from a 64-bit field, a number as the
\* declared width stores it, the string "3.5" as 3.5 from a float field and
\* the string "42" as 42 from a number field.
C22_SetThenGet ==
    (last.op = "set" /\ last.idx >= 0) =>
        \A i \in 1..Len(colStore.schema) :
            LET key == colStore.schema[i].key
                type == colStore.schema[i].type
            IN (key \in DOMAIN last.out /\ KindMatches(type, last.out[key])
                    /\ \A j \in 1..Len(colStore.schema) :
                           KindMatches(colStore.schema[j].type,
                                   Prop(last.out, colStore.schema[j].key))) =>
                  /\ last.err = ""
                  /\ ~GetThrows(colStore, last.idx)
                  /\ ReadsBack(type, last.out[key], get(colStore, last.idx)[key])

\* the number 4097 was set into an f16 field, which keeps 4096
C22_Witness ==
    /\ last.op = "set" /\ last.err = "" /\ last.idx = 2
    /\ colStore.schema = <<[key |-> "v", type |-> "f16"]>>
    /\ last.out = [v |-> Num(4097)]
    /\ get(colStore, 2) = [v |-> Num(4096)]

\* the records get returns for the rows below the size of the store
Rows(store) == [row \in 0..(store.size - 1) |-> get(store, row)]

\* what C23 says of a step: a set or copyFrom at an index at or beyond the
\* capacity leaves a larger capacity that holds the index, and every row
\* below the old size reads back as before
GrowthKeepsRows ==
    (last'.op \in {"set", "copyFrom"} /\ last'.idx >= colStore.capacity) =>
        /\ colStore'.capacity > colStore.capacity
        /\ colStore'.capacity > last'.idx
        /\ \A row \in 0..(colStore.size - 1) :
            /\ ~GetThrows(colStore', row)
            /\ get(colStore', row) = Rows(colStore)[row]

\* C23: when set or copyFrom targets an index at or beyond the current
\* capacity, the store grows and every value previously set at an index below
\* the old size reads back unchanged from get, for every field of the schema.
C23_GrowthPreserves == [][GrowthKeepsRows]_vars

\* rows 0 and 1 were set, then set(2, ...) grew the store from 2 to 4
C23_Witness ==
    /\ last.op = "set" /\ last.err = "" /\ last.idx = 2 /\ ops = 3
    /\ colStore.capacity = 4 /\ colStore.size = 3
    /\ Len(colStore.schema) = 4
    /\ get(colStore, 0).id = Big(10)
    /\ get(colStore, 1).id = Big(-1)
    /\ get(colStore, 2).id = Big(123)

\* what C24 says of a step: a swapRemove of a row below the size succeeds and
\* drops the size by one; the row reads as the last row did unless it was the
\* last row, and every other row below the new size reads as before
SwapRemoveMovesLast ==
    (last'.op = "swapRemove" /\ last'.idx \in 0..(colStore.size - 1)) =>
        /\ last'.err = ""
        /\ colStore'.size = colStore.size - 1
        /\ last'.idx # colStore.size - 1 =>
               get(colStore', last'.idx) = Rows(colStore)[colStore.size - 1]
        /\ \A row \in 0..(colStore'.size - 1) :
               row # last'.idx => get(colStore', row) = Rows(colStore)[row]

\* C24: swapRemove(index) with 0 <= index < size decreases size by exactly 1;
\* if index was not the last occupied row, row index afterwards holds for
\* every field the value that row size-1 held before, and every other row
\* below the new size is unchanged; if index was the last row no row below
\* the new size changes.
C24_SwapRemove == [][SwapRemoveMovesLast]_vars

\* three rows, the first one removed: the third took its place
C24_Witness ==
    /\ last.op = "swapRemove" /\ last.err = "" /\ last.idx = 0
    /\ colStore.size = 2
    /\ Len(colStore.schema) = 4
    /\ get(colStore, 0).id = Big(10)
    /\ get(colStore, 1).id = Big(123)

\* what C25 says of a step: a swapRemove at a negative index or at an index
\* at or beyond the size throws and leaves the store as it was
SwapRemoveRejects ==
    (last'.op = "swapRemove" /\ last'.idx \notin 0..(colStore.size - 1)) =>
        /\ last'.err = "Error"
        /\ colStore'.size = colStore.size
        /\ colStore'.capacity = colStore.capacity
        /\ colStore'.typedArrayMap = colStore.typedArrayMap

\* C25: swapRemove(index) with index < 0 or index >= size (including any
\* index on an empty store) fails with an index-out-of-range error and leaves
\* size, capacity and all buffer contents unchanged.
C25_SwapRemoveOutOfRange == [][SwapRemoveRejects]_vars

\* swapRemove(1) on a store of one row, its capacity being 2
C25_Witness ==
    /\ last.op = "swapRemove" /\ last.err = "Error" /\ last.idx = 1
    /\ colStore.size = 1 /\ colStore.capacity = 2
    /\ Len(colStore.schema) = 4
    /\ get(colStore, 0).id = Big(10)

\* the zero default of a field type as get decodes it
DefaultOf(type) ==
    CASE type = "bool" -> Bool(FALSE)
      [] type \in BigIntTypes -> Big(0)
      [] OTHER -> Num(0)

\* C26: get(index) for any index >= size returns, without error, the default
\* value of every field (0, false or 0n), also when the buffer slot at that
\* index still holds the data of a row that was swap-removed earlier.
C26_GetPastSize ==
    DOMAIN colStore.typedArrayMap # {} =>
        \A index \in colStore.size..(colStore.capacity + 1) :
            /\ ~GetThrows(colStore, index)
            /\ get(colStore, index) =
                   [k \in SchemaKeys(colStore.schema) |->
                       DefaultOf(SchemaType(colStore.schema, k))]

\* the last of three rows was moved into row 0; its old slot keeps the data
C26_Witness ==
    /\ last.op = "swapRemove" /\ last.err = "" /\ last.idx = 0
    /\ colStore.size = 2
    /\ colStore.typedArrayMap["id"][3] = Big(10)
    /\ colStore.typedArrayMap["flag"][3] = Num(1)
    /\ get(colStore, 2).id = Big(0)
    /\ get(colStore, 2).flag = Bool(FALSE)

\* what C27 says of a step: after a copyFrom that did not throw, the target
\* row reads as the source row of the other store, the capacity holds the
\* target index, the size is max(size, indexTarget + 1) and the other store
\* (last'.out, the store after the call) is the store that was handed in
CopyFromCopies ==
    (last'.op = "copyFrom" /\ last'.err = "") =>
        /\ get(colStore', last'.idx) = get(last'.out, last'.keys[1])
        /\ last'.idx >= colStore.capacity =>
               /\ colStore'.capacity > colStore.capacity
               /\ colStore'.capacity > last'.idx
        /\ last'.idx < colStore.capacity => colStore'.capacity = colStore.capacity
        /\ colStore'.size = Max(colStore.size, last'.idx + 1)
        /\ last'.out = OtherStore(colStore.schema)
        /\ last'.out.schema = colStore.schema

\* C27: a successful copyFrom(indexTarget, other, indexSrc) between two stores
\* of the same schema makes this.get(indexTarget) equal to other.get(indexSrc)
\* for every field, grows this store when indexTarget >= capacity, sets size
\* to max(size, indexTarget + 1), and leaves the other store unchanged.
C27_CopyFrom == [][CopyFromCopies]_vars

\* C27 for a target index >= 0: the same, for every copyFrom that did not
\* throw and whose target index is not negative.
C27_CopyFromAtRow == [][last'.idx >= 0 => CopyFromCopies]_vars

\* copyFrom(-1, other, 0) returned without an error and copied nothing
C27_NegativeTarget ==
    /\ last.op = "copyFrom" /\ last.err = "" /\ last.idx = -1 /\ last.keys = <<0>>
    /\ ops = 1 /\ colStore.size = 0
    /\ colStore.schema = <<[key |-> "v", type |-> "f32"]>>
    /\ get(last.out, 0) = [v |-> Half(7)]
    /\ get(colStore, -1) = [v |-> Undefined]

\* copyFrom(3, other, 1) into the new store of the tests' schema
C27_Witness ==
    /\ last.op = "copyFrom" /\ last.err = "" /\ last.idx = 3 /\ last.keys = <<1>>
    /\ ops = 1
    /\ colStore.capacity = 4 /\ colStore.size = 4
    /\ get(colStore, 3) = [x |-> Half(-7), flag |-> Bool(FALSE), id |-> Big(123),
                           name |-> Num(7)]

\* every field of the record is of the runtime kind its field type takes, or
\* absent or undefined in a field of the given types
Acceptable(store, value, types) ==
    \A j \in 1..Len(store.schema) :
        \/ /\ Prop(value, store.schema[j].key) = Undefined
           /\ store.schema[j].type \in types
        \/ KindMatches(store.schema[j].type, Prop(value, store.schema[j].key))

\* after a set at an index >= 0 of an acceptable record, the call has
\* succeeded and every field that the record left absent or undefined reads
\* as the zero default of its type
UndefinedWritesDefault(types) ==
    (last.op = "set" /\ last.idx >= 0 /\ Acceptable(colStore, last.out, types)) =>
        \A i \in 1..Len(colStore.schema) :
            Prop(last.out, colStore.schema[i].key) = Undefined =>
                /\ last.err = ""
                /\ get(colStore, last.idx)[colStore.schema[i].key] =
                       DefaultOf(colStore.schema[i].type)

\* C28: for every primitive field kind of the closed set, including the 64-bit
\* integer kinds, set with a record in which that field is absent or undefined
\* succeeds and writes the kind's zero default, so a following get returns 0,
\* false or 0n for that field.
C28_UndefinedWritesDefault == UndefinedWritesDefault(FieldTypes)

\* C28 without the 64-bit integer kinds: the same, for records that leave
\* only float, integer and bool fields absent or undefined.
C28_UndefinedWritesDefaultBelow64 == UndefinedWritesDefault(FieldTypes \ BigIntTypes)

\* set(0, {}) on a new store of one bi64 field threw a TypeError
C28_FailingSet ==
    /\ last.op = "set" /\ last.idx = 0 /\ last.out = <<>>
    /\ colStore.schema = <<[key |-> "v", type |-> "bi64"]>>
    /\ last.err = "TypeError"
    /\ colStore.size = 0

\* set(1, {}) on a new store of one f32 field wrote the default
C28_Witness ==
    /\ last.op = "set" /\ last.idx = 1 /\ last.out = <<>> /\ last.err = ""
    /\ colStore.schema = <<[key |-> "v", type |-> "f32"]>>
    /\ colStore.size = 2
    /\ get(colStore, 1) = [v |-> Num(0)]

\* some field of the record is an object (a function and a symbol take the
\* same branch of the typeof switch)
HasObjectField(store, value) ==
    \E j \in 1..Len(store.schema) : Prop(value, store.schema[j].key) = ObjectValue

\* what C29 says of a step: a set at an index >= 0 of a record with an object
\* field throws the unsupported-field-type error and leaves the size, the
\* capacity and every typed array as they were
SetRejectsWhole ==
    (last'.op = "set" /\ last'.idx >= 0 /\ HasObjectField(colStore, last'.out)) =>
        /\ last'.err = "UnsupportedFieldTypeError"
        /\ colStore'.size = colStore.size
        /\ colStore'.capacity = colStore.capacity
        /\ colStore'.typedArrayMap = colStore.typedArrayMap

\* C29: set with a record in which some field's value is an object, function
\* or symbol fails with an unsupported-field-type error and rejects the whole
\* record: size, capacity and the stored value of every field at every row
\* (including the other fields of the target row) are the same as before the
\* call.
C29_SetRejectsWhole == [][SetRejectsWhole]_vars

\* C29, the error alone: such a set fails with the unsupported-field-type
\* error and leaves the size as it was.
C29_SetFails ==
    [][(last'.op = "set" /\ last'.idx >= 0 /\ HasObjectField(colStore, last'.out)) =>
          (last'.err = "UnsupportedFieldTypeError" /\ colStore'.size = colStore.size)]_vars

\* row 0 held x = 1.5; set(0, {x: 4.5, flag: {}, id: 1n, name: 0}) threw and
\* left x = 4.5 in the row
C29_PartialWrite ==
    /\ last.op = "set" /\ last.idx = 0 /\ last.err = "UnsupportedFieldTypeError"
    /\ ops = 2 /\ colStore.size = 1
    /\ get(colStore, 0) = [x |-> Half(9), flag |-> Bool(TRUE), id |-> Big(10),
                           name |-> Num(42)]

\* the primitive kinds of the fixed recognized set
RecognizedKinds ==
    {"f16", "f32", "f64", "i8", "i16", "i32", "u8", "u16", "u32", "u8c", "bool",
     "bi64", "biu64"}

\* C30: constructing a ColumnStore with a schema that names a primitive kind
\* outside the fixed recognized set fails with an unsupported-field-type
\* error; with every kind inside the set construction succeeds with size 0
\* (and a zero-filled typed array of the capacity for every field).
C30_Constructor ==
    last.op = "construct" =>
        IF \E i \in 1..Len(colStore.schema) : colStore.schema[i].type \notin RecognizedKinds
        THEN last.err = "UnsupportedFieldTypeError"
        ELSE /\ last.err = ""
             /\ colStore.size = 0
             /\ DOMAIN colStore.typedArrayMap = SchemaKeys(colStore.schema)
             /\ \A k \in SchemaKeys(colStore.schema) :
                    colStore.typedArrayMap[k] =
                        [i \in 1..colStore.capacity |->
                            IF SchemaType(colStore.schema, k) \in {"bi64", "biu64"}
                            THEN Big(0) ELSE Num(0)]

\* the schema {x: "f32", bad: "not_a_type"} was refused
C30_Witness ==
    /\ last.op = "construct" /\ last.err = "UnsupportedFieldTypeError"
    /\ Len(colStore.schema) = 2
    /\ colStore.schema[2].type = "not_a_type"

\* what C31 says of a step: a copyFrom that throws the RangeError of the
\* source index leaves the capacity, the size and every typed array of the
\* target as they were
CopyFromRejects ==
    (last'.op = "copyFrom" /\ last'.err = "RangeError") =>
        /\ last'.keys[1] \notin 0..(last'.out.size - 1)
        /\ colStore'.capacity = colStore.capacity
        /\ colStore'.size = colStore.size
        /\ colStore'.typedArrayMap = colStore.typedArrayMap

\* C31: when copyFrom fails with an out-of-range error because indexSrc is
\* negative or >= other.size, the target store is left exactly as before the
\* call: its capacity, size and buffer contents are unchanged, also when
\* indexTarget is at or beyond the target's capacity.
C31_CopyFromRejects == [][CopyFromRejects]_vars

\* C31 below the capacity: the same, for a target index below the target's
\* capacity; the call fails exactly when indexSrc is outside 0..other.size-1.
C31_CopyFromRejectsBelowCapacity ==
    [][(last'.op = "copyFrom" /\ last'.idx < colStore.capacity) =>
          /\ CopyFromRejects
          /\ last'.keys[1] \notin 0..(last'.out.size - 1) => last'.err = "RangeError"]_vars

\* copyFrom(3, other, 2) on the new store of capacity 2 threw, and the store
\* has capacity 4
C31_GrownOnFailure ==
    /\ last.op = "copyFrom" /\ last.err = "RangeError"
    /\ last.idx = 3 /\ last.keys = <<2>> /\ ops = 1
    /\ colStore.capacity = 4 /\ colStore.size = 0
    /\ Len(colStore.schema) = 4

(***************************************************************************)
(* Properties of the World under unsupported values                        *)
(***************************************************************************)
\* the entity list, the index map and the Column Store sizes of an archetype
Shape(a) ==
    [entityIds |-> a.entityIds, indexByEntity |-> a.indexByEntity,
     sizes |-> [t \in DOMAIN a.stores |-> a.stores[t].size]]

\* what C32 says of a step: an addEntityWithComponents that throws the
\* unsupported-field-type error leaves the entity directory and the shape of
\* every archetype that existed as they were, an archetype it created is
\* empty, and an unregistered entity is returned by no query
AddRejectedWhole ==
    (ops' = ops + 1 /\ last'.op = "addEntityWithComponents"
        /\ last'.err = "UnsupportedFieldTypeError") =>
        /\ entityArchetype' = entityArchetype
        /\ \A ref \in DOMAIN heap : Shape(heap'[ref]) = Shape(heap[ref])
        /\ \A ref \in DOMAIN heap' \ DOMAIN heap :
               Shape(heap'[ref]) = Shape(NewArchetype(heap'[ref].ctors))
        /\ last'.e \notin DOMAIN entityArchetype =>
               \A types \in QueryLists : last'.e \notin QueryEntities(World', types)

\* C32: if addEntityWithComponents (through Archetype.addEntity) fails because
\* one supplied component value has an unsupported shape, the call is rejected
\* as a whole: the target archetype's entity list, index map and Column Store
\* sizes, and the World's entity directory, are the same as before the call,
\* so the entity is not returned by any query.
C32_AddRejectedWhole == [][AddRejectedWhole]_vars

\* C32, the directory alone: such a call fails with the unsupported-field-type
\* error whenever a supplied value holds an object, and leaves the entity
\* directory as it was.
C32_DirectoryKept ==
    [][(ops' = ops + 1 /\ last'.op = "addEntityWithComponents" /\ last'.c # "") =>
          (last'.err = "UnsupportedFieldTypeError" /\ entityArchetype' = entityArchetype)]_vars

\* addEntityWithComponents(1, {Position: {x, y: {}}, Health}) threw; entity 1
\* is no key of the directory, yet a row of the archetype and a result of
\* query(Health)
C32_GhostRow ==
    /\ last.op = "addEntityWithComponents" /\ last.err = "UnsupportedFieldTypeError"
    /\ last.e = 1 /\ last.c = "Position" /\ ops = 1
    /\ entityArchetype = <<>>
    /\ heap[1].entityIds = <<1>>
    /\ heap[1].stores["Health"].size = 1
    /\ heap[1].stores["Position"].size = 0
    /\ 1 \in QueryEntities(World, <<"Health">>)

\* what C39 says of a step: after an addComponent on a registered entity that
\* throws the unsupported-field-type error, getComponent returns for every
\* component the entity held what it returned before
FailedAddKeepsHeld ==
    (ops' = ops + 1 /\ last'.op = "addComponent" /\ last'.reg
        /\ last'.err = "UnsupportedFieldTypeError") =>
        \A d \in Held(World, last'.e) :
            getComponent(World', last'.e, d) = getComponent(World, last'.e, d)

\* C39: if addComponent(e, T, v) on an entity already registered in an
\* archetype fails because v has an unsupported shape, the components e held
\* before the call are still retrievable afterwards: getComponent(e, U)
\* returns the previous value for every previously held type U.
C39_FailedAddKeepsHeld == [][FailedAddKeepsHeld]_vars

\* entity 1 held Position and Health; addComponent(1, Tag, {flag: {}}) threw
\* and entity 1, still registered, holds nothing
C39_ComponentsLost ==
    /\ last.op = "addComponent" /\ last.err = "UnsupportedFieldTypeError"
    /\ last.e = 1 /\ last.c = "Tag" /\ last.reg /\ ops = 2
    /\ 1 \in DOMAIN entityArchetype
    /\ Range(heap[entityArchetype[1]].typeIds) = {"Health", "Position"}
    /\ Held(World, 1) = {}

(***************************************************************************)
(* Further properties of the ColumnStore                                   *)
(***************************************************************************)
\* the capacities initial * 2^k up to the largest the calls can reach
Doublings(initial) == {initial * Pow2(k) : k \in 0..(MaxIndex + 1)}

\* the capacity is a doubling of the initial capacity, the size lies between
\* 0 and the capacity, and every typed array has the length of the capacity
CapacityAndSize ==
    DOMAIN colStore.typedArrayMap # {} =>
        /\ colStore.capacity \in Doublings(InitialCapacity(colStore.schema))
        /\ colStore.size \in 0..colStore.capacity
        /\ \A k \in DOMAIN colStore.typedArrayMap :
               Len(colStore.typedArrayMap[k]) = colStore.capacity

\* C33: in every reachable state of a ColumnStore, after any sequence of set,
\* copyFrom and swapRemove calls, capacity equals the initial capacity times
\* 2^k for some k >= 0, capacity never decreases from one state to the next,
\* and 0 <= size <= capacity.
C33_CapacityAndSize ==
    /\ []CapacityAndSize
    /\ [][last.op # "init" => colStore'.capacity >= colStore.capacity]_vars

\* a store of one field, built with capacity 3, has grown to 6 by set(3, ...)
C33_Witness ==
    /\ Len(colStore.schema) = 1 /\ colStore.capacity = 6
    /\ last.op = "set" /\ last.err = "" /\ last.idx = 3 /\ colStore.size = 4

\* C34: after a successful set(index, value), size equals max(old size,
\* index + 1): a set below the current size never changes size, and a set at
\* or beyond it makes size index + 1 even when rows between the old size and
\* index were never written.
C34_SetSize ==
    [][(last'.op = "set" /\ last'.err = "") =>
          /\ last'.idx >= 0
          /\ colStore'.size = Max(colStore.size, last'.idx + 1)
          /\ last'.idx < colStore.size => colStore'.size = colStore.size
          /\ last'.idx >= colStore.size => colStore'.size = last'.idx + 1]_vars

\* set(3, ...) on the new store of the tests' schema: size 4 with rows 0..2
\* never written
C34_Witness ==
    /\ last.op = "set" /\ last.err = "" /\ last.idx = 3 /\ ops = 1
    /\ Len(colStore.schema) = 4
    /\ colStore.size = 4
    /\ \A row \in 0..2 : get(colStore, row).id = Big(0)
    /\ get(colStore, 3).id # Big(0)

(***************************************************************************)
(* Further properties of the Archetype                                     *)
(***************************************************************************)
\* the entity of the last row
LastEntity(a) == a.entityIds[Len(a.entityIds)]

\* what C35 says of a step: removeEntity of the entity at row last'.idx
\* points the formerly last entity at that row unless the row was the last
\* one, and leaves indexOf of every other entity as it was
RemovalRepoints ==
    (last'.op = "removeEntity" /\ last'.reg) =>
        /\ last'.idx # Len(arch.entityIds) - 1 =>
               /\ indexOf(arch', LastEntity(arch)) = [defined |-> TRUE, index |-> last'.idx]
               /\ arch'.entityIds[last'.idx + 1] = LastEntity(arch)
        /\ \A f \in ArchEntities :
               (f # last'.e /\ (f = LastEntity(arch) => last'.idx = Len(arch.entityIds) - 1)) =>
                   indexOf(arch', f) = indexOf(arch, f)

\* C35: removeEntity of an entity at row i that is not the last row makes
\* indexOf of the formerly last entity equal to i and leaves indexOf of every
\* other remaining entity unchanged; removing the entity at the last row
\* changes no other entity's indexOf.
C35_RemovalRepoints == [][RemovalRepoints]_vars

\* of three entities the one at row 0 was removed: the entity of row 2 is at
\* row 0 now and the entity of row 1 stayed
C35_Witness ==
    /\ last.op = "removeEntity" /\ last.reg /\ last.idx = 0 /\ readded = {}
    /\ Len(arch.entityIds) = 2
    /\ \A f \in Range(arch.entityIds) : arch.entityIds[arch.indexByEntity[f] + 1] = f
    /\ arch.entityIds[1] > arch.entityIds[2]

\* the size of every owned Column Store is the number of rows
StoresMatchRows(a) == \A t \in DOMAIN a.stores : a.stores[t].size = Len(a.entityIds)

\* C36: in every reachable state of an Archetype, after any sequence of
\* addEntity and removeEntity calls with supported values, the size of each
\* owned Column Store equals the number of entities in the archetype
\* (entityIds length).
C36_StoresMatchRows == StoresMatchRows(arch)

\* three rows were added and one removed: every store has size 2
C36_Witness ==
    /\ last.op = "removeEntity" /\ last.reg /\ last.idx = 0
    /\ Len(arch.entityIds) = 2
    /\ Cardinality(DOMAIN arch.stores) = 3
    /\ \A t \in DOMAIN arch.stores : arch.stores[t].size = 2

(***************************************************************************)
(* Further properties of the World                                         *)
(***************************************************************************)
\* the rows of entity e in the archetype with reference ref
RowsIn(w, ref, e) == RowsOf(w.heap[ref], e)

\* entity e has exactly one row in the archetype it is registered in and no
\* row in another archetype, or is not registered and has no row at all
Placed(w, e) ==
    \A ref \in DOMAIN w.heap :
        IF e \in DOMAIN w.entityArchetype /\ w.entityArchetype[e] = ref
        THEN /\ Cardinality(RowsIn(w, ref, e)) = 1
             /\ indexOf(w.heap[ref], e).defined
             /\ RowsIn(w, ref, e) = {indexOf(w.heap[ref], e).index + 1}
        ELSE RowsIn(w, ref, e) = {}

SameComponents(w, after, f) ==
    \A c \in WorldCtors : getComponent(after, f, c) = getComponent(w, f, c)

\* the step is a successful addComponent, removeComponent or destroyEntity
MovesOne ==
    /\ ops' = ops + 1
    /\ last'.op \in {"addComponent", "removeComponent", "destroyEntity"}
    /\ last'.err = ""

Bare(w, e) ==
    /\ e \in DOMAIN w.entityArchetype
    /\ w.heap[w.entityArchetype[e]].typeIds = <<>>

\* a bare entity is a row of its archetype, holds no component and is
\* returned by the query without type arguments
BareIsKept(w, e) ==
    /\ indexOf(w.heap[w.entityArchetype[e]], e).defined
    /\ w.heap[w.entityArchetype[e]].entityIds[indexOf(w.heap[w.entityArchetype[e]], e).index + 1] = e
    /\ \A c \in WorldCtors : ~getComponent(w, e, c).defined
    /\ e \in QueryEntities(w, <<>>)

\* the step is removeComponent(e, T) for an entity whose archetype holds T only
RemovesOnly ==
    /\ ops' = ops + 1
    /\ last'.op = "removeComponent"
    /\ last'.e \in DOMAIN entityArchetype
    /\ heap[entityArchetype[last'.e]].typeIds = <<TypeId(last'.c)>>

\* C40: removeComponent never drops an entity from the directory: after the
\* only remaining component of e is removed, e is a row of the archetype
\* with the empty signature, getComponent(e, T) reports absence for every T,
\* and e stays registered (and is returned by a query with no type
\* arguments) until destroyEntity(e).
C40_BareStaysRegistered ==
    /\ [](\A e \in Entities : Bare(World, e) => BareIsKept(World, e))
    /\ [][/\ last'.op = "removeComponent" =>
               DOMAIN entityArchetype' = DOMAIN entityArchetype
          /\ RemovesOnly => Bare(World', last'.e)
          /\ \A e \in DOMAIN entityArchetype \ DOMAIN entityArchetype' :
               last'.op = "destroyEntity" /\ last'.e = e]_vars

\* the only component of an entity was removed and the entity is still
\* registered, without components, when another operation has run
C40_Witness ==
    /\ \E e \in Entities :
        /\ Bare(World, e)
        /\ BareIsKept(World, e)
        /\ e \notin DOMAIN written \/ written[e] = <<>>
        /\ last.e # e
    /\ last.op \in {"addComponent", "destroyEntity", "addEntityWithComponents"}
    /\ ops = MaxOps

====
